---- MODULE Spec2Model ----
(***************************************************************************)
(* AIgenda weekly planning board (src/index.tsx, start-instant variant;    *)
(* src/unnamed/part_001, earlier date + coarse time-of-day variant).       *)
(*                                                                         *)
(* Time is counted in minutes.  An instant is a number of minutes since    *)
(* Monday 00:00 UTC of week 0.  A date-time STRING is a record             *)
(*   [zone |-> "local", face |-> m]  for "yyyy-MM-ddTHH:mm" (no zone), or  *)
(*   [zone |-> "utc",   face |-> m]  for "yyyy-MM-ddTHH:mm:ss.sssZ",       *)
(* where face is the calendar reading written in the string.  A day-key    *)
(* "yyyy-MM-dd" is the number of the calendar day it names.                *)
(***************************************************************************)
EXTENDS Integers, Sequences, FiniteSets, TLC

VARIABLES
    tz,             \* browser-local offset from UTC, minutes (environment)
    now,            \* reading of the browser clock, new Date() (environment)
    session,        \* App: useState<Session | null>
    currentDate,    \* App: useState(new Date())
    scheduleData,   \* useKanbanState: day-key -> Card[]
    weekDays,       \* useKanbanState: Date[]
    db,             \* the store's "tasks" rows, in insertion order
    pending,        \* requests awaited by a suspended handler, in issue order
    editingCard,    \* App: useState<Card | 'new' | null | Partial<Card>>
    formData,       \* CardModal: useState(formData), while it is mounted
    isSuggesting,   \* CardModal: useState(false)
    conflict,       \* App: useState({ isOpen, onConfirm })
    draggedItem,    \* App: useRef<{cardId} | null>
    isAIModalOpen,  \* App: useState(false)
    prompt,         \* AIModal: useState('')
    isLoading,      \* AIModal: useState(false)
    notice,         \* the alert() raised by the last step, "" when none
    lastEvent       \* the handler or continuation that ran last

env == << tz, now >>
app == << session, currentDate >>
board == << scheduleData, weekDays >>
modal == << editingCard, formData, isSuggesting >>
aimodal == << isAIModalOpen, prompt, isLoading >>

vars == << tz, now, session, currentDate, scheduleData, weekDays, db, pending,
           editingCard, formData, isSuggesting, conflict, draggedItem,
           isAIModalOpen, prompt, isLoading, notice, lastEvent >>

----------------------------------------------------------------------------
(* Bounds of the model *)

MaxPending == 2
MaxWeekShift == 1
MaxRows == 2
MaxPendingBoard == 1

(* Program constants *)

WeekStartsOn == 1

MinPerDay == 24 * 60
MinPerWeek == 7 * MinPerDay

NoSession == "none"
Users == {"u1", "u2"}

\* offsets the browser may run under: UTC-5, UTC, UTC+2
TZSet == {0 - 300, 0, 120}
\* times of day used by the inputs: 00:30, 09:00, 23:30
TodSet == {30, 540, 1410}
\* the week the browser clock is in at start-up
HomeWeek == 2

----------------------------------------------------------------------------
(* Dates: JavaScript Date and date-fns, as the code calls them *)

DayOf(m) == m \div MinPerDay
TodOf(m) == m % MinPerDay

LocalStr(face) == [zone |-> "local", face |-> face]
IsoStr(inst) == [zone |-> "utc", face |-> inst]

\* new Date(s) and parseISO(s) of a date-time string: a string without a zone
\* is read as local time, a string ending in Z as UTC
NewDate(s) == IF s.zone = "utc" THEN s.face ELSE s.face - tz

\* new Date("yyyy-MM-dd"): a date-only string is read as UTC midnight
NewDateOfDayKey(d) == d * MinPerDay

\* date.toISOString()
ToISOString(inst) == IsoStr(inst)

\* format(date, "yyyy-MM-dd'T'HH:mm")
FormatDateTime(inst) == LocalStr(inst + tz)

\* format(date, 'yyyy-MM-dd')
FormatDay(inst) == DayOf(inst + tz)

GetHours(inst) == TodOf(inst + tz) \div 60
GetMinutes(inst) == TodOf(inst + tz) % 60

\* date.setHours(h, m): same local calendar day, seconds kept (always 0 here)
SetHours(inst, h, m) == DayOf(inst + tz) * MinPerDay + h * 60 + m - tz

\* date.getDay(): 0 = Sunday; day 0 of the model is a Monday
GetDay(inst) == (DayOf(inst + tz) + 1) % 7

AddDays(inst, n) == inst + n * MinPerDay

\* startOfWeek(date, { locale: fr }): fr has weekStartsOn 1
StartOfWeekFrom(inst, weekStartsOn) ==
    LET day == GetDay(inst)
        diff == (IF day < weekStartsOn THEN 7 ELSE 0) + day - weekStartsOn
    IN  (DayOf(inst + tz) - diff) * MinPerDay - tz

\* a startOfWeek that was not given the locale: weeks start on Sunday
StartOfWeekSunday(inst) == StartOfWeekFrom(inst, 0)

StartOfWeek(inst) == StartOfWeekFrom(inst, WeekStartsOn)

\* endOfWeek(date, { locale: fr }): 23:59:59.999 of the last day, here 23:59
EndOfWeek(inst) ==
    LET day == GetDay(inst)
        diff == (IF day < WeekStartsOn THEN 0 - 7 ELSE 0) + 6 - (day - WeekStartsOn)
    IN  (DayOf(inst + tz) + diff) * MinPerDay + (MinPerDay - 1) - tz

\* eachDayOfInterval({ start, end }): local midnight of every day touched
EachDayOfInterval(start, end) ==
    [i \in 1..(FormatDay(end) - FormatDay(start) + 1) |->
        (FormatDay(start) + i - 1) * MinPerDay - tz]

----------------------------------------------------------------------------
(* Cards and the store collaborator *)

\* the Card interface: what the edit form sends (formData plus datetime_end)
\* with the three fields the store assigns
Row(id, owner, data) ==
    [id |-> id, user_id |-> owner, created_at |-> id,
     title |-> data.title, subtasks |-> data.subtasks,
     datetime_start |-> data.datetime_start, datetime_end |-> data.datetime_end,
     duration_min |-> data.duration_min, category |-> data.category,
     priority |-> data.priority, notes |-> data.notes]

\* The store keeps a date-time as it was written and compares it with the
\* bounds of a query by the calendar value written in it: it does not know
\* the browser's zone.
StoreReads(s) == s.face

\* .select('*').eq('user_id', owner).gte('datetime_start', start.toISOString())
\*                                  .lte('datetime_start', end.toISOString())
StoreSelect(rows, owner, start, end) ==
    SelectSeq(rows, LAMBDA r :
        /\ r.user_id = owner
        /\ StoreReads(r.datetime_start) >= StoreReads(ToISOString(start))
        /\ StoreReads(r.datetime_start) <= StoreReads(ToISOString(end)))

\* .insert([{ ...card, user_id }]): the store assigns id and created_at
StoreInsert(rows, owner, data) == Append(rows, Row(Len(rows) + 1, owner, data))

\* .update(fields).eq('id', id): the named fields of the matching row
StoreUpdate(rows, id, fields) ==
    [i \in 1..Len(rows) |->
        IF rows[i].id = id
        THEN [f \in DOMAIN rows[i] |->
                 IF f \in DOMAIN fields THEN fields[f] ELSE rows[i][f]]
        ELSE rows[i]]

----------------------------------------------------------------------------
(* Board projection *)

\* Array.prototype.sort with the comparator of sortCards is a stable sort by
\* new Date(datetime_start).getTime()
RECURSIVE InsertSorted(_, _)
InsertSorted(sorted, c) ==
    IF sorted = << >> THEN << c >>
    ELSE IF NewDate(sorted[Len(sorted)].datetime_start) - NewDate(c.datetime_start) <= 0
         THEN Append(sorted, c)
         ELSE Append(InsertSorted(SubSeq(sorted, 1, Len(sorted) - 1), c),
                     sorted[Len(sorted)])

RECURSIVE SortFrom(_, _)
SortFrom(cards, acc) ==
    IF cards = << >> THEN acc
    ELSE SortFrom(Tail(cards), InsertSorted(acc, Head(cards)))

SortCards(cards) == SortFrom(cards, << >>)

\* the key fetchTasks files a task under: format(parseISO(datetime_start), 'yyyy-MM-dd')
TaskDayKey(task) == FormatDay(NewDate(task.datetime_start))

\* fetchTasks, success branch: one column per day of the window, each task
\* pushed into the column of its day when that column exists, columns sorted
BuildSchedule(tasks, start, end) ==
    LET days == EachDayOfInterval(start, end)
        keys == { FormatDay(days[i]) : i \in DOMAIN days }
    IN  [k \in keys |-> SortCards(SelectSeq(tasks, LAMBDA t : TaskDayKey(t) = k))]

EmptySchedule == << >>

\* all cards held in memory
CardsOf(sd) == UNION { { sd[k][i] : i \in DOMAIN sd[k] } : k \in DOMAIN sd }

\* findCardLocation(cardId).card, or the empty set when it returns null
FindCard(sd, cardId) == { c \in CardsOf(sd) : c.id = cardId }

----------------------------------------------------------------------------
(* Edit form: CardModal *)

ClosedForm == [mounted |-> FALSE]

NoCard == [kind |-> "none"]
NewCard == [kind |-> "new"]
ExistingCard(card) == [kind |-> "card", card |-> card]
Draft(fields) == [kind |-> "draft", draft |-> fields]

\* value || fallback on a field that may be absent from a partial card
OrElse(d, f, fallback) == IF f \in DOMAIN d THEN d[f] ELSE fallback

\* useState initialiser of CardModal: a card without id is new, and a new
\* card starts now whatever the card says
InitForm(ec) ==
    IF ec.kind = "card"
    THEN [mounted |-> TRUE,
          title |-> ec.card.title,
          datetime_start |-> FormatDateTime(NewDate(ec.card.datetime_start)),
          duration_min |-> ec.card.duration_min,
          category |-> ec.card.category,
          priority |-> ec.card.priority,
          subtasks |-> ec.card.subtasks,
          notes |-> ec.card.notes]
    ELSE LET d == IF ec.kind = "draft" THEN ec.draft ELSE [f \in {} |-> ""]
         IN  [mounted |-> TRUE,
              title |-> OrElse(d, "title", ""),
              datetime_start |-> FormatDateTime(now),
              duration_min |-> OrElse(d, "duration_min", 60),
              category |-> OrElse(d, "category", "Travail"),
              priority |-> OrElse(d, "priority", "moyenne"),
              subtasks |-> OrElse(d, "subtasks", << >>),
              notes |-> OrElse(d, "notes", "")]

\* what CardModal holds once App renders it for card ec
MountForm(ec) == IF ec.kind = "none" THEN ClosedForm ELSE InitForm(ec)

\* the edit form as the seed rows were typed into it
FormData(title, start, dur) ==
    [mounted |-> TRUE, title |-> title, datetime_start |-> start,
     duration_min |-> dur, category |-> "Travail", priority |-> "moyenne",
     subtasks |-> << >>, notes |-> ""]

\* CardModal.handleSave, end of the task: start plus duration_min * 60000 ms
EndOfForm(fd) == NewDate(fd.datetime_start) + fd.duration_min

\* CardModal.handleSave: formData plus datetime_end, empty subtasks dropped
DataToSave(fd) ==
    [title |-> fd.title, datetime_start |-> fd.datetime_start,
     datetime_end |-> ToISOString(EndOfForm(fd)),
     duration_min |-> fd.duration_min, category |-> fd.category,
     priority |-> fd.priority,
     subtasks |-> SelectSeq(fd.subtasks, LAMBDA st : st # ""),
     notes |-> fd.notes]

Monday(w) == w * MinPerWeek

\* task A of u1, typed into the form earlier: Monday 09:00 of the home week,
\* 60 minutes
SeedDb ==
    StoreInsert(<< >>, "u1",
        DataToSave(FormData("A", LocalStr(Monday(HomeWeek) + 540), 60)))

----------------------------------------------------------------------------
(* Store adapter: useKanbanState *)

Step(name, alert) == lastEvent' = name /\ notice' = alert

\* a select awaited by fetchTasks; live is the session App holds when the
\* call is issued, sess the one the issuing closure captured
SelectReq(sess, date, ctx, live) ==
    [kind |-> "select", owner |-> sess, start |-> StartOfWeek(date),
     end |-> EndOfWeek(date), sess |-> sess, date |-> date, ctx |-> ctx,
     live |-> live]

FromEffect == [op |-> "effect"]

\* the guard of fetchTasks, addCard and updateCard: if (!session?.user) return
HasUser(sess) == sess # NoSession

\* fetchTasks as created by the render that saw (sess, date), up to its await
FetchTasks(sess, date, ctx, pend, live) ==
    IF ~HasUser(sess)
    THEN /\ weekDays' = weekDays
         /\ pending' = pend
    ELSE /\ weekDays' = EachDayOfInterval(StartOfWeek(date), EndOfWeek(date))
         /\ pending' = Append(pend, SelectReq(sess, date, ctx, live))

Without(pend, i) == SubSeq(pend, 1, i - 1) \o SubSeq(pend, i + 1, Len(pend))

\* a fetchTasks that applies its result only when no request was issued
\* after it
ResolveSelectOkLatestOnly(i) ==
    /\ i \in DOMAIN pending
    /\ pending[i].kind = "select"
    /\ scheduleData' =
          IF i = Len(pending)
          THEN BuildSchedule(
                   StoreSelect(db, pending[i].owner, pending[i].start, pending[i].end),
                   pending[i].start, pending[i].end)
          ELSE scheduleData
    /\ pending' = Without(pending, i)
    /\ Step("ResolveSelectOk", "")
    /\ UNCHANGED << env, app, weekDays, db, modal, conflict, draggedItem, aimodal >>

\* fetchTasks after its await, no error
ResolveSelectOk(i) ==
    /\ i \in DOMAIN pending
    /\ pending[i].kind = "select"
    /\ scheduleData' = BuildSchedule(
            StoreSelect(db, pending[i].owner, pending[i].start, pending[i].end),
            pending[i].start, pending[i].end)
    /\ pending' = Without(pending, i)
    /\ Step("ResolveSelectOk", "")
    /\ UNCHANGED << env, app, weekDays, db, modal, conflict, draggedItem, aimodal >>

\* a fetchTasks that keeps what it held when the store reports an error
ResolveSelectErrorKeeps(i) ==
    /\ i \in DOMAIN pending
    /\ pending[i].kind = "select"
    /\ pending' = Without(pending, i)
    /\ Step("ResolveSelectError", "")
    /\ UNCHANGED << env, app, board, db, modal, conflict, draggedItem, aimodal >>

\* fetchTasks after its await, error
ResolveSelectError(i) ==
    /\ i \in DOMAIN pending
    /\ pending[i].kind = "select"
    /\ scheduleData' = EmptySchedule
    /\ pending' = Without(pending, i)
    /\ Step("ResolveSelectError", "")
    /\ UNCHANGED << env, app, weekDays, db, modal, conflict, draggedItem, aimodal >>

\* addCard of the render that saw (sess, date), up to its await
InsertReq(data, sess, date, live) ==
    [kind |-> "insert", owner |-> sess, data |-> data, sess |-> sess,
     date |-> date, live |-> live]

AddCard(data, sess, date, live) ==
    IF ~HasUser(sess) THEN pending' = pending
    ELSE pending' = Append(pending, InsertReq(data, sess, date, live))

\* an addCard that files the returned row in scheduleData itself and does
\* not refetch
ResolveInsertOkLocal(i) ==
    /\ i \in DOMAIN pending
    /\ pending[i].kind = "insert"
    /\ db' = StoreInsert(db, pending[i].owner, pending[i].data)
    /\ LET row == Row(Len(db) + 1, pending[i].owner, pending[i].data)
           k == TaskDayKey(row)
       IN  scheduleData' =
             IF k \in DOMAIN scheduleData
             THEN [scheduleData EXCEPT ![k] = SortCards(Append(@, row))]
             ELSE scheduleData
    /\ pending' = Without(pending, i)
    /\ Step("ResolveInsertOk", "")
    /\ UNCHANGED << env, app, weekDays, modal, conflict, draggedItem, aimodal >>

\* addCard after its await: data returned, fetchTasks()
ResolveInsertOk(i) ==
    /\ i \in DOMAIN pending
    /\ pending[i].kind = "insert"
    /\ db' = StoreInsert(db, pending[i].owner, pending[i].data)
    /\ FetchTasks(pending[i].sess, pending[i].date,
                  [op |-> "add", data |-> pending[i].data],
                  Without(pending, i), session)
    /\ Step("ResolveInsertOk", "")
    /\ UNCHANGED << env, app, scheduleData, modal, conflict, draggedItem, aimodal >>

\* addCard after its await: error, logged
ResolveInsertError(i) ==
    /\ i \in DOMAIN pending
    /\ pending[i].kind = "insert"
    /\ pending' = Without(pending, i)
    /\ Step("ResolveInsertError", "")
    /\ UNCHANGED << env, app, board, db, modal, conflict, draggedItem, aimodal >>

\* an update that sends the card as it is held
UpdateDataWhole(card) == card

\* const { id, user_id, created_at, ...updateData } = updatedCard
UpdateData(card) ==
    [f \in DOMAIN card \ {"id", "user_id", "created_at"} |-> card[f]]

UpdateReq(card, sess, date, live) ==
    [kind |-> "update", id |-> card.id, fields |-> UpdateData(card),
     sess |-> sess, date |-> date, live |-> live]

\* updateCard up to its await
UpdateCard(card, sess, date, live) ==
    IF ~HasUser(sess) THEN pending' = pending
    ELSE pending' = Append(pending, UpdateReq(card, sess, date, live))

\* updateCard after its await: no error, fetchTasks()
ResolveUpdateOk(i) ==
    /\ i \in DOMAIN pending
    /\ pending[i].kind = "update"
    /\ db' = StoreUpdate(db, pending[i].id, pending[i].fields)
    /\ FetchTasks(pending[i].sess, pending[i].date,
                  [op |-> "update", id |-> pending[i].id],
                  Without(pending, i), session)
    /\ Step("ResolveUpdateOk", "")
    /\ UNCHANGED << env, app, scheduleData, modal, conflict, draggedItem, aimodal >>

\* updateCard after its await: error, logged
ResolveUpdateError(i) ==
    /\ i \in DOMAIN pending
    /\ pending[i].kind = "update"
    /\ pending' = Without(pending, i)
    /\ Step("ResolveUpdateError", "")
    /\ UNCHANGED << env, app, board, db, modal, conflict, draggedItem, aimodal >>

\* moveCard: new Date(targetDay), then setHours(hours, minutes of the original start)
MovedStart(card, targetDay) ==
    SetHours(NewDateOfDayKey(targetDay),
             GetHours(NewDate(card.datetime_start)),
             GetMinutes(NewDate(card.datetime_start)))

\* a moveCard that left the end where it was
MovedEndKept(card, targetDay) == NewDate(card.datetime_end)

\* moveCard: the end is the new start plus duration_min * 60000 ms
MovedEnd(card, targetDay) == MovedStart(card, targetDay) + card.duration_min

\* a moveCard that sends the card it holds with the new start and end
MoveReqWholeCard(card, targetDay, sess, date, live) ==
    [kind |-> "move", id |-> card.id,
     fields |-> [f \in DOMAIN card \ {"id"} |->
                    IF f = "datetime_start" THEN ToISOString(MovedStart(card, targetDay))
                    ELSE IF f = "datetime_end" THEN ToISOString(MovedEnd(card, targetDay))
                    ELSE card[f]],
     orig |-> card, targetDay |-> targetDay,
     sess |-> sess, date |-> date, live |-> live]

MoveReq(card, targetDay, sess, date, live) ==
    [kind |-> "move", id |-> card.id,
     fields |-> [datetime_start |-> ToISOString(MovedStart(card, targetDay)),
                 datetime_end |-> ToISOString(MovedEnd(card, targetDay))],
     orig |-> card, targetDay |-> targetDay,
     sess |-> sess, date |-> date, live |-> live]

\* a moveCard without the lookup in scheduleData: the update is issued for
\* whatever id it is given, at midnight of the target day
MoveCardUnchecked(cardId, targetDay, sess, date, live) ==
    LET card == [id |-> cardId,
                 datetime_start |-> LocalStr(targetDay * MinPerDay),
                 datetime_end |-> LocalStr(targetDay * MinPerDay),
                 duration_min |-> 0]
    IN  pending' = Append(pending, MoveReq(card, targetDay, sess, date, live))

\* moveCard up to its await: skipped when the id is not in scheduleData
MoveCard(cardId, targetDay, sess, date, live) ==
    IF FindCard(scheduleData, cardId) = {} THEN pending' = pending
    ELSE LET card == CHOOSE c \in FindCard(scheduleData, cardId) : TRUE
         IN  pending' = Append(pending, MoveReq(card, targetDay, sess, date, live))

MoveCtx(r, ok) ==
    [op |-> "move", id |-> r.id, targetDay |-> r.targetDay, orig |-> r.orig,
     ok |-> ok]

\* a moveCard that also rewrites the card it holds in scheduleData once the
\* update is stored
ResolveMoveOkOptimistic(i) ==
    /\ i \in DOMAIN pending
    /\ pending[i].kind = "move"
    /\ db' = StoreUpdate(db, pending[i].id, pending[i].fields)
    /\ scheduleData' =
          [k \in DOMAIN scheduleData |->
              [n \in DOMAIN scheduleData[k] |->
                  IF scheduleData[k][n].id = pending[i].id
                  THEN [f \in DOMAIN scheduleData[k][n] |->
                           IF f \in DOMAIN pending[i].fields
                           THEN pending[i].fields[f]
                           ELSE scheduleData[k][n][f]]
                  ELSE scheduleData[k][n]]]
    /\ FetchTasks(pending[i].sess, pending[i].date, MoveCtx(pending[i], TRUE),
                  Without(pending, i), session)
    /\ Step("ResolveMoveOk", "")
    /\ UNCHANGED << env, app, modal, conflict, draggedItem, aimodal >>

\* moveCard after its await: fetchTasks() whether or not the update failed
ResolveMoveOk(i) ==
    /\ i \in DOMAIN pending
    /\ pending[i].kind = "move"
    /\ db' = StoreUpdate(db, pending[i].id, pending[i].fields)
    /\ FetchTasks(pending[i].sess, pending[i].date, MoveCtx(pending[i], TRUE),
                  Without(pending, i), session)
    /\ Step("ResolveMoveOk", "")
    /\ UNCHANGED << env, app, scheduleData, modal, conflict, draggedItem, aimodal >>

ResolveMoveError(i) ==
    /\ i \in DOMAIN pending
    /\ pending[i].kind = "move"
    /\ FetchTasks(pending[i].sess, pending[i].date, MoveCtx(pending[i], FALSE),
                  Without(pending, i), session)
    /\ Step("ResolveMoveError", "")
    /\ UNCHANGED << env, app, scheduleData, db, modal, conflict, draggedItem, aimodal >>

----------------------------------------------------------------------------
(* Session gate and week navigation: App, WeeklyHeader *)

\* what App returns: the sign-in surface without a session, else the board
View == IF session = NoSession THEN "signin" ELSE "board"

\* getSession().then / onAuthStateChange: setSession(s).  Losing the session
\* unmounts the board (CardModal and AIModal lose their state), gaining one
\* mounts it; the effect on [fetchTasks] then runs the new fetchTasks.
AuthChange(s) ==
    /\ Len(pending) < MaxPending
    /\ session' = s
    /\ FetchTasks(s, currentDate, FromEffect, pending, s)
    /\ formData' = IF s = NoSession THEN ClosedForm
                   ELSE IF session = NoSession THEN MountForm(editingCard)
                   ELSE formData
    /\ isSuggesting' = IF s = NoSession \/ session = NoSession THEN FALSE
                       ELSE isSuggesting
    /\ prompt' = IF s = NoSession \/ session = NoSession THEN "" ELSE prompt
    /\ isLoading' = IF s = NoSession \/ session = NoSession THEN FALSE
                    ELSE isLoading
    /\ Step("AuthChange", "")
    /\ UNCHANGED << env, currentDate, scheduleData, db, editingCard, conflict,
                    draggedItem, isAIModalOpen >>

\* the board reacts to the pointer only where no modal covers it
BoardFree ==
    /\ session # NoSession
    /\ editingCard.kind = "none"
    /\ ~conflict.isOpen
    /\ ~isAIModalOpen

\* setCurrentDate(d) from the header, then the effect on [fetchTasks]
SetCurrentDate(d, name) ==
    /\ BoardFree
    /\ Len(pending) < MaxPending
    /\ d >= (HomeWeek - MaxWeekShift) * MinPerWeek
    /\ d < (HomeWeek + MaxWeekShift + 1) * MinPerWeek
    /\ currentDate' = d
    /\ FetchTasks(session, d, FromEffect, pending, session)
    /\ Step(name, "")
    /\ UNCHANGED << env, session, scheduleData, db, modal, conflict,
                    draggedItem, aimodal >>

HandlePrevWeek == SetCurrentDate(AddDays(currentDate, 0 - 7), "handlePrevWeek")
HandleNextWeek == SetCurrentDate(AddDays(currentDate, 7), "handleNextWeek")
HandleToday == SetCurrentDate(now, "handleToday")

----------------------------------------------------------------------------
(* Drag-move controller: App *)

\* the columns App renders: format(day, 'yyyy-MM-dd') for day of weekDays
Columns == { FormatDay(weekDays[i]) : i \in DOMAIN weekDays }

\* a board that draws the columns scheduleData holds
BoardOfSchedule ==
    [i \in { j \in DOMAIN weekDays : FormatDay(weekDays[j]) \in DOMAIN scheduleData } |->
        [columnName |-> FormatDay(weekDays[i]),
         cards |-> scheduleData[FormatDay(weekDays[i])]]]

\* <main>: weekDays.map(day => <KanbanColumn columnName={dayStr}> over
\* scheduleData[dayStr] || [])
Board ==
    [i \in DOMAIN weekDays |->
        [columnName |-> FormatDay(weekDays[i]),
         cards |-> IF FormatDay(weekDays[i]) \in DOMAIN scheduleData
                   THEN scheduleData[FormatDay(weekDays[i])]
                   ELSE << >>]]

\* the cards App renders: scheduleData[dayStr] || [] for each column
ShownCards ==
    UNION { { scheduleData[k][i] : i \in DOMAIN scheduleData[k] } :
            k \in Columns \cap DOMAIN scheduleData }

HandleDragStart(cardId) ==
    /\ BoardFree
    /\ cardId \in { c.id : c \in ShownCards }
    /\ draggedItem' = [cardId |-> cardId]
    /\ Step("handleDragStart", "")
    /\ UNCHANGED << env, app, board, db, pending, modal, conflict, aimodal >>

NoDrag == [none |-> TRUE]

\* a drag end that keeps the captured id
HandleDragEndKeeps ==
    /\ session # NoSession
    /\ draggedItem # NoDrag
    /\ Step("handleDragEnd", "")
    /\ UNCHANGED << env, app, board, db, pending, modal, conflict, draggedItem, aimodal >>

HandleDragEnd ==
    /\ session # NoSession
    /\ draggedItem # NoDrag
    /\ draggedItem' = NoDrag
    /\ Step("handleDragEnd", "")
    /\ UNCHANGED << env, app, board, db, pending, modal, conflict, aimodal >>

\* handleDrop on the column of targetDay: ignored without a captured drag
HandleDrop(targetDay) ==
    /\ session # NoSession
    /\ targetDay \in Columns
    /\ Len(pending) < MaxPending
    /\ IF draggedItem = NoDrag
       THEN pending' = pending
       ELSE MoveCard(draggedItem.cardId, targetDay, session, currentDate, session)
    /\ Step("handleDrop", "")
    /\ UNCHANGED << env, app, board, db, modal, conflict, draggedItem, aimodal >>

----------------------------------------------------------------------------
(* Edit form and conflict detector: App, CardModal, ConfirmationModal *)

\* the edit form reacts to the pointer when no confirmation covers it
FormFree ==
    /\ session # NoSession
    /\ editingCard.kind # "none"
    /\ ~conflict.isOpen

\* the green button: setEditingCard('new')
OpenNewCard ==
    /\ BoardFree
    /\ editingCard' = NewCard
    /\ formData' = InitForm(NewCard)
    /\ isSuggesting' = FALSE
    /\ Step("openNewCard", "")
    /\ UNCHANGED << env, app, board, db, pending, conflict, draggedItem, aimodal >>

\* click on a card: setEditingCard(card)
OpenCard(card) ==
    /\ BoardFree
    /\ card \in ShownCards
    /\ editingCard' = ExistingCard(card)
    /\ formData' = InitForm(ExistingCard(card))
    /\ isSuggesting' = FALSE
    /\ Step("openCard", "")
    /\ UNCHANGED << env, app, board, db, pending, conflict, draggedItem, aimodal >>

\* onClose of CardModal: setEditingCard(null)
CloseCard ==
    /\ FormFree
    /\ editingCard' = NoCard
    /\ formData' = ClosedForm
    /\ isSuggesting' = FALSE
    /\ Step("closeCard", "")
    /\ UNCHANGED << env, app, board, db, pending, conflict, draggedItem, aimodal >>

\* handleChange on one input of the form
HandleChange(name, value) ==
    /\ FormFree
    /\ formData.mounted
    /\ formData[name] # value
    /\ formData' = [formData EXCEPT ![name] = value]
    /\ Step("handleChange", "")
    /\ UNCHANGED << env, app, board, db, pending, editingCard, isSuggesting,
                    conflict, draggedItem, aimodal >>

NoConflict == [isOpen |-> FALSE, onConfirm |-> [set |-> FALSE]]

\* the onConfirm closure made by handleSaveCard: addCard(formData) of the
\* render that saw (sess, date)
OnConfirm(data, sess, date) ==
    [set |-> TRUE, data |-> data, sess |-> sess, date |-> date]

\* handleSaveCard, the test of the loop over the target day's cards
SameStart(card, data) == card.datetime_start = data.datetime_start

\* a conflict check that looks at the rows of the store on the target day
TargetDayTasksOfStore(data) ==
    { db[r] : r \in { q \in DOMAIN db :
        FormatDay(NewDate(db[q].datetime_start)) = FormatDay(NewDate(data.datetime_start)) } }

\* handleSaveCard: scheduleData[format(new Date(start), 'yyyy-MM-dd')] || []
TargetDayTasks(data) ==
    LET k == FormatDay(NewDate(data.datetime_start))
    IN  IF k \in DOMAIN scheduleData
        THEN { scheduleData[k][i] : i \in DOMAIN scheduleData[k] }
        ELSE {}

HasConflict(data) == \E card \in TargetDayTasks(data) : SameStart(card, data)

\* a handleSaveCard that raised the prompt and went on to addCard
SaveNewCardNoReturn(data) ==
    /\ conflict' = IF HasConflict(data)
                   THEN [isOpen |-> TRUE,
                         onConfirm |-> OnConfirm(data, session, currentDate)]
                   ELSE conflict
    /\ AddCard(data, session, currentDate, session)
    /\ editingCard' = NoCard
    /\ formData' = ClosedForm
    /\ isSuggesting' = FALSE

\* CardModal.handleSave then handleSaveCard, new card: conflict prompt, or
\* addCard and close
SaveNewCard(data) ==
    IF HasConflict(data)
    THEN /\ conflict' = [isOpen |-> TRUE,
                         onConfirm |-> OnConfirm(data, session, currentDate)]
         /\ UNCHANGED << pending, editingCard, formData, isSuggesting >>
    ELSE /\ AddCard(data, session, currentDate, session)
         /\ editingCard' = NoCard
         /\ formData' = ClosedForm
         /\ isSuggesting' = FALSE
         /\ conflict' = conflict

\* a handleSaveCard that updates from the card the form was opened on
SaveExistingCardFromForm(data, cardId) ==
    /\ LET merged == [f \in DOMAIN editingCard.card |->
                         IF f \in DOMAIN data THEN data[f] ELSE editingCard.card[f]]
       IN  UpdateCard(merged, session, currentDate, session)
    /\ editingCard' = NoCard
    /\ formData' = ClosedForm
    /\ isSuggesting' = FALSE
    /\ conflict' = conflict

\* a handleSaveCard that runs the conflict check on an edit as well
SaveExistingCardChecked(data, cardId) ==
    IF HasConflict(data)
    THEN /\ conflict' = [isOpen |-> TRUE,
                         onConfirm |-> OnConfirm(data, session, currentDate)]
         /\ UNCHANGED << pending, editingCard, formData, isSuggesting >>
    ELSE /\ IF FindCard(scheduleData, cardId) = {} THEN pending' = pending
            ELSE LET found == CHOOSE c \in FindCard(scheduleData, cardId) : TRUE
                     merged == [f \in DOMAIN found |->
                                   IF f \in DOMAIN data THEN data[f] ELSE found[f]]
                 IN  UpdateCard(merged, session, currentDate, session)
         /\ editingCard' = NoCard
         /\ formData' = ClosedForm
         /\ isSuggesting' = FALSE
         /\ conflict' = conflict

\* CardModal.handleSave then handleSaveCard, existing card: updateCard when
\* the card is still in scheduleData, close in any case
SaveExistingCard(data, cardId) ==
    /\ IF FindCard(scheduleData, cardId) = {} THEN pending' = pending
       ELSE LET found == CHOOSE c \in FindCard(scheduleData, cardId) : TRUE
                merged == [f \in DOMAIN found |->
                              IF f \in DOMAIN data THEN data[f] ELSE found[f]]
            IN  UpdateCard(merged, session, currentDate, session)
    /\ editingCard' = NoCard
    /\ formData' = ClosedForm
    /\ isSuggesting' = FALSE
    /\ conflict' = conflict

\* the model stops adding rows at MaxRows
RoomForRow ==
    Len(db) + Cardinality({ i \in DOMAIN pending : pending[i].kind = "insert" })
        < MaxRows

\* a handleSave that does not look at the title
HandleSaveUnvalidated ==
    /\ FormFree
    /\ formData.mounted
    /\ Step("handleSave", "")
    /\ Len(pending) < MaxPending
    /\ editingCard.kind # "card" => RoomForRow
    /\ IF editingCard.kind = "card"
       THEN SaveExistingCard(DataToSave(formData), editingCard.card.id)
       ELSE SaveNewCard(DataToSave(formData))
    /\ UNCHANGED << env, app, board, db, draggedItem, aimodal >>

\* the Enregistrer button: CardModal.handleSave
HandleSave ==
    /\ FormFree
    /\ formData.mounted
    /\ IF formData.title = ""
       THEN /\ Step("handleSave", "Le titre est obligatoire.")
            /\ UNCHANGED << pending, modal, conflict >>
       ELSE /\ Step("handleSave", "")
            /\ Len(pending) < MaxPending
            /\ editingCard.kind # "card" => RoomForRow
            /\ IF editingCard.kind = "card"
               THEN SaveExistingCard(DataToSave(formData), editingCard.card.id)
               ELSE SaveNewCard(DataToSave(formData))
    /\ UNCHANGED << env, app, board, db, draggedItem, aimodal >>

\* ConfirmationModal is rendered by the board while conflict.isOpen
PromptShown == session # NoSession /\ conflict.isOpen

\* "Valider quand meme": conflict.onConfirm
ConfirmConflict ==
    /\ PromptShown
    /\ Len(pending) < MaxPending
    /\ RoomForRow
    /\ AddCard(conflict.onConfirm.data, conflict.onConfirm.sess,
               conflict.onConfirm.date, session)
    /\ editingCard' = NoCard
    /\ formData' = ClosedForm
    /\ isSuggesting' = FALSE
    /\ conflict' = NoConflict
    /\ Step("onConfirm", "")
    /\ UNCHANGED << env, app, board, db, draggedItem, aimodal >>

\* "Choisir une autre date": onCancel
CancelConflict ==
    /\ PromptShown
    /\ conflict' = NoConflict
    /\ Step("onCancel", "")
    /\ UNCHANGED << env, app, board, db, pending, modal, draggedItem, aimodal >>

----------------------------------------------------------------------------
(* AI task drafting: App, AIModal, CardModal *)

\* cardSchema.required
RequiredFields ==
    {"title", "subtasks", "datetime_start", "datetime_end", "duration_min",
     "category", "priority"}

\* the fields handleAIGenerate tests before it opens the edit form
CheckedFields ==
    {"title", "datetime_start", "datetime_end", "duration_min", "category",
     "priority"}

\* a complete answer of the AI service: Wednesday 14:00 of the home week
FullDraft ==
    [title |-> "T", subtasks |-> << "s1" >>,
     datetime_start |-> LocalStr(Monday(HomeWeek) + 2 * MinPerDay + 840),
     datetime_end |-> LocalStr(Monday(HomeWeek) + 2 * MinPerDay + 885),
     duration_min |-> 45, category |-> "Sante", priority |-> "haute",
     notes |-> "n"]

Restrict(r, fields) == [f \in DOMAIN r \cap fields |-> r[f]]

NoReply == [state |-> "awaited"]
TransportError == [state |-> "rejected"]
Unparsable == [state |-> "text"]
Parsed(obj) == [state |-> "json", obj |-> obj]

DraftReplies ==
    {TransportError, Unparsable, Parsed(FullDraft)}
        \cup { Parsed(Restrict(FullDraft, DOMAIN FullDraft \ {f})) :
               f \in RequiredFields }

SuggestReplies ==
    {TransportError, Unparsable, Parsed([details |-> "- s1"]),
     Parsed([f \in {} |-> ""])}

Prompts == {"p"}

\* the AI modal reacts to the pointer when it is the top modal
AIFree ==
    /\ session # NoSession
    /\ isAIModalOpen
    /\ editingCard.kind = "none"
    /\ ~conflict.isOpen

\* the blue button: setIsAIModalOpen(true)
OpenAIModal ==
    /\ BoardFree
    /\ isAIModalOpen' = TRUE
    /\ Step("openAIModal", "")
    /\ UNCHANGED << env, app, board, db, pending, modal, conflict, draggedItem,
                    prompt, isLoading >>

\* click on the backdrop of the AI modal: onClose
CloseAIModal ==
    /\ AIFree
    /\ isAIModalOpen' = FALSE
    /\ Step("closeAIModal", "")
    /\ UNCHANGED << env, app, board, db, pending, modal, conflict, draggedItem,
                    prompt, isLoading >>

\* typing in the textarea (disabled while loading): setPrompt
SetPrompt(p) ==
    /\ AIFree
    /\ ~isLoading
    /\ prompt # p
    /\ prompt' = p
    /\ Step("setPrompt", "")
    /\ UNCHANGED << env, app, board, db, pending, modal, conflict, draggedItem,
                    isAIModalOpen, isLoading >>

\* AIModal.handleSubmit up to the await inside handleAIGenerate
HandleSubmit ==
    /\ AIFree
    /\ ~isLoading
    /\ prompt # ""
    /\ Len(pending) < MaxPending
    /\ isLoading' = TRUE
    /\ pending' = Append(pending,
            [kind |-> "ai_draft", prompt |-> prompt, reply |-> NoReply])
    /\ Step("handleSubmit", "")
    /\ UNCHANGED << env, app, board, db, modal, conflict, draggedItem,
                    isAIModalOpen, prompt >>

\* CardModal.handleSuggest up to the await inside handleSuggestSubtasks
HandleSuggest ==
    /\ FormFree
    /\ formData.mounted
    /\ ~isSuggesting
    /\ Len(pending) < MaxPending
    /\ isSuggesting' = TRUE
    /\ pending' = Append(pending,
            [kind |-> "ai_suggest", title |-> formData.title, reply |-> NoReply])
    /\ Step("handleSuggest", "")
    /\ UNCHANGED << env, app, board, db, editingCard, formData, conflict,
                    draggedItem, aimodal >>

\* the AI service answers a request
AIAnswers(i, r) ==
    /\ i \in DOMAIN pending
    /\ pending[i].kind \in {"ai_draft", "ai_suggest"}
    /\ pending[i].reply = NoReply
    /\ r \in (IF pending[i].kind = "ai_draft" THEN DraftReplies ELSE SuggestReplies)
    /\ pending' = [pending EXCEPT ![i].reply = r]
    /\ Step("aiAnswers", "")
    /\ UNCHANGED << env, app, board, db, modal, conflict, draggedItem, aimodal >>

\* handleAIGenerate: the test that lets a parsed answer open the edit form
IsCompleteDraft(obj) == CheckedFields \subseteq DOMAIN obj

\* setEditingCard({ ...cardData, subtasks: [], notes: '' })
DraftCard(obj) ==
    [f \in DOMAIN obj \cup {"subtasks", "notes"} |->
        IF f = "subtasks" THEN << >> ELSE IF f = "notes" THEN "" ELSE obj[f]]

AIGenerateFailed == "L'IA n'a pas pu generer une tache complete."
AIGenerateError == "Une erreur est survenue lors de la communication avec l'IA."
AISuggestError == "Une erreur est survenue lors de la suggestion de sous-taches."

\* handleAIGenerate after its await, then the rest of AIModal.handleSubmit:
\* setIsLoading(false); setPrompt(''); onClose()
ResumeGenerate(i) ==
    /\ i \in DOMAIN pending
    /\ pending[i].kind = "ai_draft"
    /\ pending[i].reply # NoReply
    /\ LET r == pending[i].reply
       IN  IF r.state = "json" /\ IsCompleteDraft(r.obj)
           THEN /\ editingCard' = Draft(DraftCard(r.obj))
                /\ formData' = IF session = NoSession THEN ClosedForm
                               ELSE IF formData.mounted THEN formData
                               ELSE InitForm(Draft(DraftCard(r.obj)))
                /\ Step("handleAIGenerate", "")
           ELSE /\ UNCHANGED << editingCard, formData >>
                /\ Step("handleAIGenerate",
                        IF r.state = "json" THEN AIGenerateFailed
                        ELSE AIGenerateError)
    /\ isLoading' = FALSE
    /\ prompt' = ""
    /\ isAIModalOpen' = FALSE
    /\ pending' = Without(pending, i)
    /\ UNCHANGED << env, app, board, db, isSuggesting, conflict, draggedItem >>

\* handleSuggestSubtasks after its await, then the rest of
\* CardModal.handleSuggest: the suggestion is dropped, setIsSuggesting(false)
ResumeSuggest(i) ==
    /\ i \in DOMAIN pending
    /\ pending[i].kind = "ai_suggest"
    /\ pending[i].reply # NoReply
    /\ Step("handleSuggest.resume",
            IF pending[i].reply.state = "json" THEN "" ELSE AISuggestError)
    /\ isSuggesting' = FALSE
    /\ pending' = Without(pending, i)
    /\ UNCHANGED << env, app, board, db, editingCard, formData, conflict,
                    draggedItem, aimodal >>

----------------------------------------------------------------------------
(* The coarse variant of the board: tasks carry a calendar day (task_date)
   and a time-of-day label instead of a start instant *)

AllDay == "Toute la journee"
Morning == "Matin"
Afternoon == "Apres-midi"

\* timeToSortValue
TimeToSortValue(time) ==
    IF time = AllDay THEN 0
    ELSE IF time = Morning THEN 1
    ELSE IF time = Afternoon THEN 2
    ELSE 3

\* a row of the coarse tasks table: the coarse Card interface
CoarseRow(id, owner, data) ==
    [id |-> id, user_id |-> owner, created_at |-> id,
     task_date |-> data.task_date, title |-> data.title, time |-> data.time,
     details |-> data.details, color |-> data.color, progress |-> data.progress]

CoarseData(title, day, time) ==
    [task_date |-> day, title |-> title, time |-> time, details |-> "",
     color |-> "bg-teal-200", progress |-> 0]

\* the comparator of the coarse sortCards: date difference, then rank
CoarseBefore(a, b) ==
    LET dateDiff == NewDateOfDayKey(a.task_date) - NewDateOfDayKey(b.task_date)
    IN  IF dateDiff # 0 THEN dateDiff < 0
        ELSE TimeToSortValue(a.time) < TimeToSortValue(b.time)

RECURSIVE CoarseInsertSorted(_, _)
CoarseInsertSorted(c, sorted) ==
    IF sorted = << >> THEN << c >>
    ELSE IF CoarseBefore(c, Head(sorted)) THEN << c >> \o sorted
    ELSE << Head(sorted) >> \o CoarseInsertSorted(c, Tail(sorted))

RECURSIVE CoarseSortFrom(_, _)
CoarseSortFrom(cards, sorted) ==
    IF cards = << >> THEN sorted
    ELSE CoarseSortFrom(Tail(cards), CoarseInsertSorted(Head(cards), sorted))

\* the coarse sortCards: Array.prototype.sort is stable
CoarseSortCards(cards) == CoarseSortFrom(cards, << >>)

\* .eq('user_id', owner).gte('task_date', from).lte('task_date', to)
CoarseStoreSelect(rows, owner, from, to) ==
    SelectSeq(rows, LAMBDA r :
        r.user_id = owner /\ r.task_date >= from /\ r.task_date <= to)

\* format(new Date(task.task_date), 'yyyy-MM-dd')
CoarseTaskDayKey(task) == FormatDay(NewDateOfDayKey(task.task_date))

\* the coarse fetchTasks after its await: columns, filing, sort
CoarseBuildSchedule(tasks, start, end) ==
    LET days == EachDayOfInterval(start, end)
        keys == { FormatDay(days[i]) : i \in DOMAIN days }
    IN  [k \in keys |->
            CoarseSortCards(SelectSeq(tasks, LAMBDA t : CoarseTaskDayKey(t) = k))]

CoarseSelectReq(sess, date, ctx, live) ==
    [kind |-> "select_by_date", owner |-> sess,
     from |-> FormatDay(StartOfWeek(date)), to |-> FormatDay(EndOfWeek(date)),
     start |-> StartOfWeek(date), end |-> EndOfWeek(date),
     sess |-> sess, date |-> date, ctx |-> ctx, live |-> live]

\* the coarse fetchTasks of the render that saw (sess, date), up to its await
CoarseFetchTasks(sess, date, ctx, pend, live) ==
    IF ~HasUser(sess)
    THEN /\ weekDays' = weekDays
         /\ pending' = pend
    ELSE /\ weekDays' = EachDayOfInterval(StartOfWeek(date), EndOfWeek(date))
         /\ pending' = Append(pend, CoarseSelectReq(sess, date, ctx, live))

CoarseResolveSelectOk(i) ==
    /\ i \in DOMAIN pending
    /\ pending[i].kind = "select_by_date"
    /\ scheduleData' = CoarseBuildSchedule(
            CoarseStoreSelect(db, pending[i].owner, pending[i].from, pending[i].to),
            pending[i].start, pending[i].end)
    /\ pending' = Without(pending, i)
    /\ Step("ResolveSelectOk", "")
    /\ UNCHANGED << env, app, weekDays, db, modal, conflict, draggedItem, aimodal >>

CoarseResolveSelectError(i) ==
    /\ i \in DOMAIN pending
    /\ pending[i].kind = "select_by_date"
    /\ scheduleData' = EmptySchedule
    /\ pending' = Without(pending, i)
    /\ Step("ResolveSelectError", "")
    /\ UNCHANGED << env, app, weekDays, db, modal, conflict, draggedItem, aimodal >>

\* the coarse moveCard up to its await: update({ task_date: targetDay })
CoarseMoveCard(cardId, targetDay, sess, date, live) ==
    pending' = Append(pending,
        [kind |-> "move_date", id |-> cardId, fields |-> [task_date |-> targetDay],
         targetDay |-> targetDay, sess |-> sess, date |-> date, live |-> live])

\* the coarse moveCard after its await: fetchTasks() in any case
CoarseResolveMoveOk(i) ==
    /\ i \in DOMAIN pending
    /\ pending[i].kind = "move_date"
    /\ db' = StoreUpdate(db, pending[i].id, pending[i].fields)
    /\ CoarseFetchTasks(pending[i].sess, pending[i].date,
            [op |-> "move", id |-> pending[i].id, targetDay |-> pending[i].targetDay,
             ok |-> TRUE],
            Without(pending, i), session)
    /\ Step("ResolveMoveOk", "")
    /\ UNCHANGED << env, app, scheduleData, modal, conflict, draggedItem, aimodal >>

CoarseResolveMoveError(i) ==
    /\ i \in DOMAIN pending
    /\ pending[i].kind = "move_date"
    /\ CoarseFetchTasks(pending[i].sess, pending[i].date,
            [op |-> "move", id |-> pending[i].id, targetDay |-> pending[i].targetDay,
             ok |-> FALSE],
            Without(pending, i), session)
    /\ Step("ResolveMoveError", "")
    /\ UNCHANGED << env, app, scheduleData, db, modal, conflict, draggedItem, aimodal >>

\* the coarse handleDrop: ignored without a captured drag
CoarseHandleDrop(targetDay) ==
    /\ session # NoSession
    /\ targetDay \in Columns
    /\ Len(pending) < MaxPending
    /\ IF draggedItem = NoDrag
       THEN pending' = pending
       ELSE CoarseMoveCard(draggedItem.cardId, targetDay, session, currentDate, session)
    /\ Step("handleDrop", "")
    /\ UNCHANGED << env, app, board, db, modal, conflict, draggedItem, aimodal >>

\* setSession(s) in the coarse App, then the effect on [fetchTasks]
CoarseAuthChange(s) ==
    /\ Len(pending) < MaxPending
    /\ session' = s
    /\ CoarseFetchTasks(s, currentDate, FromEffect, pending, s)
    /\ Step("AuthChange", "")
    /\ UNCHANGED << env, currentDate, scheduleData, db, modal, conflict,
                    draggedItem, aimodal >>

\* formData.task_date when no date is chosen (the empty string)
NoDate == -1

\* useState initialiser of the coarse CardModal
CoarseInitForm(ec) ==
    IF ec.kind = "card"
    THEN [mounted |-> TRUE, title |-> ec.card.title,
          task_date |-> ec.card.task_date, time |-> ec.card.time,
          details |-> ec.card.details, color |-> ec.card.color,
          progress |-> ec.card.progress]
    ELSE LET d == IF ec.kind = "draft" THEN ec.draft ELSE [f \in {} |-> ""]
         IN  [mounted |-> TRUE,
              title |-> OrElse(d, "title", ""),
              task_date |-> OrElse(d, "task_date", FormatDay(now)),
              time |-> OrElse(d, "time", Morning),
              details |-> OrElse(d, "details", ""),
              color |-> OrElse(d, "color", "bg-teal-200"),
              progress |-> OrElse(d, "progress", 0)]

\* the green button of the coarse board: setEditingCard('new')
CoarseOpenNewCard ==
    /\ BoardFree
    /\ editingCard' = NewCard
    /\ formData' = CoarseInitForm(NewCard)
    /\ isSuggesting' = FALSE
    /\ Step("openNewCard", "")
    /\ UNCHANGED << env, app, board, db, pending, conflict, draggedItem, aimodal >>

\* click on a card of the coarse board: setEditingCard(card)
CoarseOpenCard(card) ==
    /\ BoardFree
    /\ card \in ShownCards
    /\ editingCard' = ExistingCard(card)
    /\ formData' = CoarseInitForm(ExistingCard(card))
    /\ isSuggesting' = FALSE
    /\ Step("openCard", "")
    /\ UNCHANGED << env, app, board, db, pending, conflict, draggedItem, aimodal >>

\* handleDateSelect: a day picked in the calendar of the form
CoarseHandleDateSelect(day) == HandleChange("task_date", FormatDay(day))

\* onSave(formData, id): the coarse form is saved as it is
CoarseDataToSave(fd) == [f \in DOMAIN fd \ {"mounted"} |-> fd[f]]

\* scheduleData[format(new Date(formData.task_date), 'yyyy-MM-dd')] || []
CoarseTargetDayTasks(data) ==
    LET k == FormatDay(NewDateOfDayKey(data.task_date))
    IN  IF k \in DOMAIN scheduleData
        THEN { scheduleData[k][i] : i \in DOMAIN scheduleData[k] }
        ELSE {}

\* a conflict test that compares the two time-of-day values only
CoarseHasConflictSameTime(data) ==
    \E card \in CoarseTargetDayTasks(data) : card.time = data.time

\* the test of the loop over the target day's cards
CoarseHasConflict(data) ==
    \E card \in CoarseTargetDayTasks(data) :
        card.time = AllDay \/ data.time = AllDay \/ card.time = data.time

\* the coarse handleSaveCard, new card: conflict prompt, or performSave
CoarseSaveNewCard(data) ==
    IF CoarseHasConflict(data)
    THEN /\ conflict' = [isOpen |-> TRUE,
                         onConfirm |-> OnConfirm(data, session, currentDate)]
         /\ UNCHANGED << pending, editingCard, formData, isSuggesting >>
    ELSE /\ AddCard(data, session, currentDate, session)
         /\ editingCard' = NoCard
         /\ formData' = ClosedForm
         /\ isSuggesting' = FALSE
         /\ conflict' = NoConflict

\* the coarse handleSaveCard, existing card: performSave
CoarseSaveExistingCard(data, cardId) ==
    /\ IF FindCard(scheduleData, cardId) = {} THEN pending' = pending
       ELSE LET found == CHOOSE c \in FindCard(scheduleData, cardId) : TRUE
                merged == [f \in DOMAIN found |->
                              IF f \in DOMAIN data THEN data[f] ELSE found[f]]
            IN  UpdateCard(merged, session, currentDate, session)
    /\ editingCard' = NoCard
    /\ formData' = ClosedForm
    /\ isSuggesting' = FALSE
    /\ conflict' = NoConflict

\* the Enregistrer button of the coarse CardModal: handleSave
CoarseHandleSave ==
    /\ FormFree
    /\ formData.mounted
    /\ IF formData.title = ""
       THEN /\ Step("handleSave", "Le titre est obligatoire.")
            /\ UNCHANGED << pending, modal, conflict >>
       ELSE IF formData.task_date = NoDate
       THEN /\ Step("handleSave", "Veuillez choisir une date.")
            /\ UNCHANGED << pending, modal, conflict >>
       ELSE /\ Step("handleSave", "")
            /\ Len(pending) < MaxPending
            /\ editingCard.kind # "card" => RoomForRow
            /\ IF editingCard.kind = "card"
               THEN CoarseSaveExistingCard(CoarseDataToSave(formData), editingCard.card.id)
               ELSE CoarseSaveNewCard(CoarseDataToSave(formData))
    /\ UNCHANGED << env, app, board, db, draggedItem, aimodal >>

\* the coarse addCard after its await: data returned, fetchTasks()
CoarseResolveInsertOk(i) ==
    /\ i \in DOMAIN pending
    /\ pending[i].kind = "insert"
    /\ db' = Append(db, CoarseRow(Len(db) + 1, pending[i].owner, pending[i].data))
    /\ CoarseFetchTasks(pending[i].sess, pending[i].date,
                        [op |-> "add", data |-> pending[i].data],
                        Without(pending, i), session)
    /\ Step("ResolveInsertOk", "")
    /\ UNCHANGED << env, app, scheduleData, modal, conflict, draggedItem, aimodal >>

\* the coarse updateCard after its await: no error, fetchTasks()
CoarseResolveUpdateOk(i) ==
    /\ i \in DOMAIN pending
    /\ pending[i].kind = "update"
    /\ db' = StoreUpdate(db, pending[i].id, pending[i].fields)
    /\ CoarseFetchTasks(pending[i].sess, pending[i].date,
                        [op |-> "update", id |-> pending[i].id],
                        Without(pending, i), session)
    /\ Step("ResolveUpdateOk", "")
    /\ UNCHANGED << env, app, scheduleData, modal, conflict, draggedItem, aimodal >>

\* a quick increment that keeps adding
QuickProgressUnbounded(p) == p + 10

\* handleProgressClick: card.progress >= 100 ? 0 : card.progress + 10
QuickProgress(p) == IF p >= 100 THEN 0 ELSE p + 10

\* the progress bar of a card on the board: updateCard({ ...card, progress })
CoarseHandleProgressClick(card) ==
    /\ BoardFree
    /\ card \in ShownCards
    /\ Len(pending) < MaxPending
    /\ UpdateCard([card EXCEPT !.progress = QuickProgress(card.progress)],
                  session, currentDate, session)
    /\ Step("handleProgressClick", "")
    /\ UNCHANGED << env, app, board, db, modal, conflict, draggedItem, aimodal >>

\* handleProgressChange from the controls of the form: the - button, the
\* + button, the slider (min 0, max 100, step 10)
CoarseProgressMinus ==
    LET p == formData.progress - 10
    IN  HandleChange("progress", IF p > 0 THEN p ELSE 0)

CoarseProgressPlus ==
    LET p == formData.progress + 10
    IN  HandleChange("progress", IF p < 100 THEN p ELSE 100)

CoarseProgressSlider(step) == HandleChange("progress", 10 * step)

----------------------------------------------------------------------------
(* Inputs of the user *)

Titles == {"", "B"}
Durations == {60, 90}
\* Monday and Wednesday of the home week, 09:00, as typed in datetime-local
FormStarts == { LocalStr(Monday(HomeWeek) + d * MinPerDay + 540) : d \in {0, 2} }

Requests == 1..MaxPending

\* the columns a card is dropped on: Monday, Wednesday, Sunday
DropColumns == {1, 3, 7}
DropTargets == { FormatDay(weekDays[i]) : i \in DOMAIN weekDays \cap DropColumns }

ResolveSelect ==
    \/ \E i \in Requests : ResolveSelectOk(i)
    \/ \E i \in Requests : ResolveSelectError(i)

ResolveInsert ==
    \/ \E i \in Requests : ResolveInsertOk(i)
    \/ \E i \in Requests : ResolveInsertError(i)

ResolveUpdate ==
    \/ \E i \in Requests : ResolveUpdateOk(i)
    \/ \E i \in Requests : ResolveUpdateError(i)

ResolveMove ==
    \/ \E i \in Requests : ResolveMoveOk(i)
    \/ \E i \in Requests : ResolveMoveError(i)

DragAndDrop ==
    \/ \E c \in ShownCards : HandleDragStart(c.id)
    \/ HandleDragEnd
    \/ \E d \in DropTargets : HandleDrop(d)

NewCardForm ==
    \/ OpenNewCard
    \/ CloseCard
    \/ \E t \in Titles : HandleChange("title", t)
    \/ HandleSave
    \/ ConfirmConflict
    \/ CancelConflict

EditCardForm ==
    \/ \E c \in ShownCards : OpenCard(c)
    \/ \E s \in FormStarts : HandleChange("datetime_start", s)
    \/ \E d \in Durations : HandleChange("duration_min", d)

Navigate ==
    \/ HandlePrevWeek
    \/ HandleNextWeek
    \/ HandleToday

AIDrafting ==
    \/ OpenAIModal
    \/ CloseAIModal
    \/ \E p \in Prompts : SetPrompt(p)
    \/ HandleSubmit
    \/ HandleSuggest
    \/ \E i \in Requests : \E r \in DraftReplies \cup SuggestReplies : AIAnswers(i, r)
    \/ \E i \in Requests : ResumeGenerate(i)
    \/ \E i \in Requests : ResumeSuggest(i)

\* at most n requests are in flight after the step
AtMost(n) == Len(pending') <= n

----------------------------------------------------------------------------
(* The program from its construction *)

\* App before any session is known; the store holds what was saved earlier
InitApp ==
    /\ session = NoSession
    /\ currentDate = now
    /\ scheduleData = EmptySchedule
    /\ weekDays = << >>
    /\ pending = << >>
    /\ editingCard = NoCard
    /\ formData = ClosedForm
    /\ isSuggesting = FALSE
    /\ conflict = NoConflict
    /\ draggedItem = NoDrag
    /\ isAIModalOpen = FALSE
    /\ prompt = ""
    /\ isLoading = FALSE
    /\ notice = ""
    /\ lastEvent = "init"

\* the browser runs in UTC+2 and its clock reads Monday 09:00 local of the
\* home week
Init ==
    /\ tz = 120
    /\ now = Monday(HomeWeek) + 540 - tz
    /\ db = SeedDb
    /\ InitApp

\* session gate, writes of the signed-in user, and their continuations
Next ==
    \/ \E s \in Users \cup {NoSession} : AuthChange(s) /\ AtMost(MaxPendingBoard)
    \/ NewCardForm /\ AtMost(MaxPendingBoard)
    \/ DragAndDrop /\ AtMost(MaxPendingBoard)
    \/ ResolveSelect
    \/ ResolveInsert
    \/ ResolveMove

Spec == Init /\ [][Next]_vars

----------------------------------------------------------------------------
(* The board of a signed-in user, after its first fetch *)

\* task C of u1, typed into the form earlier: Wednesday 23:30, 90 minutes
SeedDbTwo ==
    StoreInsert(SeedDb, "u1",
        DataToSave(FormData("C", LocalStr(Monday(HomeWeek) + 2 * MinPerDay + 1410), 90)))

InitBoardWith(rows) ==
    /\ tz \in TZSet
    /\ now = Monday(HomeWeek) + 540 - tz
    /\ session = "u1"
    /\ currentDate = now
    /\ weekDays = EachDayOfInterval(StartOfWeek(now), EndOfWeek(now))
    /\ db = rows
    /\ scheduleData = BuildSchedule(
            StoreSelect(db, "u1", StartOfWeek(now), EndOfWeek(now)),
            StartOfWeek(now), EndOfWeek(now))
    /\ pending = << >>
    /\ editingCard = NoCard
    /\ formData = ClosedForm
    /\ isSuggesting = FALSE
    /\ conflict = NoConflict
    /\ draggedItem = NoDrag
    /\ isAIModalOpen = FALSE
    /\ prompt = ""
    /\ isLoading = FALSE
    /\ notice = ""
    /\ lastEvent = "init"

InitBoard == InitBoardWith(SeedDb)

InitDrag == InitBoardWith(SeedDbTwo)

\* drag-move controller and moveCard
NextDrag ==
    \/ DragAndDrop /\ AtMost(MaxPendingBoard)
    \/ ResolveSelect
    \/ ResolveMove

SpecDrag == InitDrag /\ [][NextDrag]_vars

\* edit form, conflict detector, and the moves that rewrite a start
NextSave ==
    \/ NewCardForm /\ AtMost(MaxPendingBoard)
    \/ DragAndDrop /\ AtMost(MaxPendingBoard)
    \/ ResolveSelect
    \/ ResolveInsert
    \/ ResolveMove

SpecSave == InitBoard /\ [][NextSave]_vars

\* new-card form and conflict prompt
NextConflict ==
    \/ \E s \in {"u1", NoSession} : AuthChange(s) /\ AtMost(MaxPendingBoard)
    \/ NewCardForm /\ AtMost(MaxPendingBoard)
    \/ \E st \in FormStarts : HandleChange("datetime_start", st) /\ AtMost(MaxPendingBoard)
    \/ ResolveSelect
    \/ ResolveInsert

SpecConflict == InitBoard /\ [][NextConflict]_vars

\* edit form on new and existing cards, conflict detector
NextForm ==
    \/ NewCardForm /\ AtMost(MaxPendingBoard)
    \/ EditCardForm /\ AtMost(MaxPendingBoard)
    \/ ResolveSelect
    \/ ResolveInsert
    \/ ResolveUpdate

SpecForm == InitBoard /\ [][NextForm]_vars

\* a task through its life: created, edited, moved to Wednesday; the open
\* form covers the board, so cards are dragged while it is closed
NextLife ==
    \/ NewCardForm /\ AtMost(MaxPendingBoard)
    \/ \E c \in ShownCards : OpenCard(c)
    \/ \E d \in Durations : HandleChange("duration_min", d)
    \/ \E c \in ShownCards : HandleDragStart(c.id) /\ editingCard = NoCard
    \/ HandleDragEnd
    \/ HandleDrop(FormatDay(weekDays[3])) /\ editingCard = NoCard /\ AtMost(MaxPendingBoard)
    \/ ResolveSelect
    \/ ResolveInsert
    \/ ResolveUpdate
    \/ ResolveMove

\* the board of u1 in UTC+2
InitLife == InitBoard /\ tz = 120

SpecLife == InitLife /\ [][NextLife]_vars

\* the starts typed for a round trip: the first and the last half hour of
\* the home week and Wednesday 09:00, local time
RoundTripStarts ==
    { LocalStr(Monday(HomeWeek) + m) : m \in {30, 2 * MinPerDay + 540, 6 * MinPerDay + 1410} }

\* a task typed into the form, saved, and fetched back
NextRoundTrip ==
    \/ NewCardForm /\ AtMost(MaxPendingBoard)
    \/ \E s \in RoundTripStarts : HandleChange("datetime_start", s)
    \/ ResolveSelect
    \/ ResolveInsert

SpecRoundTrip == InitBoard /\ [][NextRoundTrip]_vars

\* AI drafting and the edit form it opens
NextAI ==
    \/ AIDrafting /\ AtMost(MaxPendingBoard)
    \/ NewCardForm /\ AtMost(MaxPendingBoard)
    \/ ResolveSelect
    \/ ResolveInsert

SpecAI == InitBoard /\ [][NextAI]_vars

----------------------------------------------------------------------------
(* Time-window calculator on its own: any clock reading, any zone *)

\* Monday, Thursday and Sunday of the home week
NowSet == { Monday(HomeWeek) + d * MinPerDay + t : d \in {0, 3, 6}, t \in TodSet }

InitWeek ==
    /\ tz \in TZSet
    /\ now \in { n - tz : n \in NowSet }
    /\ db = SeedDb
    /\ InitApp

NextWeek ==
    \/ \E s \in {"u1", NoSession} : AuthChange(s)
    \/ Navigate
    \/ ResolveSelect

SpecWeek == InitWeek /\ [][NextWeek]_vars

\* rows of the coarse table as u1 saved them on Wednesday of the home week:
\* a free-text time first, then afternoon, then all-day
CoarseSeedDb ==
    << CoarseRow(1, "u1", CoarseData("P", HomeWeek * 7 + 2, "10h")),
       CoarseRow(2, "u1", CoarseData("Q", HomeWeek * 7 + 2, Afternoon)),
       CoarseRow(3, "u1", CoarseData("R", HomeWeek * 7 + 2, AllDay)) >>

InitCoarse ==
    /\ tz \in TZSet
    /\ now = Monday(HomeWeek) + 540 - tz
    /\ db = CoarseSeedDb
    /\ InitApp

CoarseDragAndDrop ==
    \/ \E c \in ShownCards : HandleDragStart(c.id)
    \/ HandleDragEnd
    \/ \E k \in DropTargets : CoarseHandleDrop(k)

CoarseResolveSelect ==
    \E i \in Requests : CoarseResolveSelectOk(i) \/ CoarseResolveSelectError(i)

CoarseResolveMove ==
    \E i \in Requests : CoarseResolveMoveOk(i) \/ CoarseResolveMoveError(i)

\* the coarse board: session gate, fetch, drag-move
NextCoarse ==
    \/ \E s \in {"u1", NoSession} : CoarseAuthChange(s) /\ AtMost(MaxPendingBoard)
    \/ CoarseDragAndDrop /\ AtMost(MaxPendingBoard)
    \/ CoarseResolveSelect
    \/ CoarseResolveMove

SpecCoarse == InitCoarse /\ [][NextCoarse]_vars

----------------------------------------------------------------------------
(* The edit form of either variant, saved with and without a title *)

\* the store holds the rows of the coarse variant
IsCoarse == db # << >> /\ "task_date" \in DOMAIN db[1]

\* the coarse board of u1 after its first fetch of the rows the store holds
InitCoarseBoardWith(rows) ==
    /\ tz \in TZSet
    /\ now = Monday(HomeWeek) + 540 - tz
    /\ session = "u1"
    /\ currentDate = now
    /\ weekDays = EachDayOfInterval(StartOfWeek(now), EndOfWeek(now))
    /\ db = rows
    /\ scheduleData = CoarseBuildSchedule(
            CoarseStoreSelect(db, "u1", FormatDay(StartOfWeek(now)),
                              FormatDay(EndOfWeek(now))),
            StartOfWeek(now), EndOfWeek(now))
    /\ pending = << >>
    /\ editingCard = NoCard
    /\ formData = ClosedForm
    /\ isSuggesting = FALSE
    /\ conflict = NoConflict
    /\ draggedItem = NoDrag
    /\ isAIModalOpen = FALSE
    /\ prompt = ""
    /\ isLoading = FALSE
    /\ notice = ""
    /\ lastEvent = "init"

\* one task, Monday morning
InitCoarseBoard ==
    InitCoarseBoardWith(<< CoarseRow(1, "u1", CoarseData("P", HomeWeek * 7, Morning)) >>)

CoarseTimes == {Morning, Afternoon, AllDay}

CoarseCardForm ==
    \/ CoarseOpenNewCard
    \/ \E c \in ShownCards : CoarseOpenCard(c)
    \/ CloseCard
    \/ \E t \in Titles : HandleChange("title", t)
    \/ \E v \in CoarseTimes : HandleChange("time", v)
    \/ CoarseHandleSave
    \/ ConfirmConflict
    \/ CancelConflict

CardForm ==
    \/ NewCardForm
    \/ \E c \in ShownCards : OpenCard(c)

NextValidation ==
    \/ ~IsCoarse /\ CardForm /\ AtMost(MaxPendingBoard)
    \/ ~IsCoarse /\ ResolveSelect
    \/ ~IsCoarse /\ \E i \in Requests : ResolveInsertOk(i)
    \/ ~IsCoarse /\ \E i \in Requests : ResolveUpdateOk(i)
    \/ IsCoarse /\ CoarseCardForm /\ AtMost(MaxPendingBoard)
    \/ IsCoarse /\ CoarseResolveSelect
    \/ IsCoarse /\ \E i \in Requests : CoarseResolveInsertOk(i)
    \/ IsCoarse /\ \E i \in Requests : CoarseResolveUpdateOk(i)
    \/ \E i \in Requests : ResolveInsertError(i)
    \/ \E i \in Requests : ResolveUpdateError(i)

SpecValidation == (InitBoard \/ InitCoarseBoard) /\ [][NextValidation]_vars

----------------------------------------------------------------------------
(* Drag-moves on the board of either variant *)

NextMove ==
    \/ ~IsCoarse /\ DragAndDrop /\ AtMost(MaxPendingBoard)
    \/ ~IsCoarse /\ ResolveSelect
    \/ ~IsCoarse /\ ResolveMove
    \/ IsCoarse /\ CoarseDragAndDrop /\ AtMost(MaxPendingBoard)
    \/ IsCoarse /\ CoarseResolveSelect
    \/ IsCoarse /\ CoarseResolveMove

SpecMove == (InitDrag \/ InitCoarseBoard) /\ [][NextMove]_vars

----------------------------------------------------------------------------
(* New tasks saved on the coarse board *)

\* one task on Wednesday, of any time of day
InitCoarseSave ==
    \E t \in CoarseTimes :
        InitCoarseBoardWith(<< CoarseRow(1, "u1", CoarseData("P", HomeWeek * 7 + 2, t)) >>)

NextCoarseSave ==
    \/ CoarseOpenNewCard
    \/ CloseCard
    \/ \E t \in Titles : HandleChange("title", t)
    \/ \E v \in CoarseTimes : HandleChange("time", v)
    \/ \E i \in DOMAIN weekDays \cap DropColumns : CoarseHandleDateSelect(weekDays[i])
    \/ CoarseHandleSave /\ AtMost(MaxPendingBoard)
    \/ ConfirmConflict /\ AtMost(MaxPendingBoard)
    \/ CancelConflict
    \/ CoarseResolveSelect
    \/ \E i \in Requests : CoarseResolveInsertOk(i)
    \/ \E i \in Requests : ResolveInsertError(i)

SpecCoarseSave == InitCoarseSave /\ [][NextCoarseSave]_vars

----------------------------------------------------------------------------
(* Progress of one task of the coarse board, from its creation *)

\* the positions of the slider the user leaves it on: both ends, the middle
SliderSteps == {0, 5, 10}

\* the board of u1 before any task is saved, the browser in UTC+2
InitProgress ==
    /\ InitCoarseBoardWith(<< >>)
    /\ tz = 120

NextProgress ==
    \/ CoarseOpenNewCard
    \/ \E c \in ShownCards : CoarseOpenCard(c)
    \/ HandleChange("title", "B")
    \/ CoarseProgressMinus
    \/ CoarseProgressPlus
    \/ \E s \in SliderSteps : CoarseProgressSlider(s)
    \/ CoarseHandleSave /\ AtMost(MaxPendingBoard) /\ (editingCard.kind = "card" \/ db = << >>)
    \/ \E c \in ShownCards : CoarseHandleProgressClick(c) /\ AtMost(MaxPendingBoard)
    \/ \E i \in Requests : CoarseResolveSelectOk(i)
    \/ \E i \in Requests : CoarseResolveInsertOk(i)
    \/ \E i \in Requests : CoarseResolveUpdateOk(i)

SpecProgress == InitProgress /\ [][NextProgress]_vars

----------------------------------------------------------------------------
(* An edit and a drag-move of the same task, their requests overlapping *)

NextOverlap ==
    \/ \E c \in ShownCards : OpenCard(c)
    \/ \E m \in Durations : HandleChange("duration_min", m)
    \/ HandleSave
    \/ \E c \in ShownCards : HandleDragStart(c.id)
    \/ HandleDragEnd
    \/ HandleDrop(FormatDay(weekDays[3]))
    \/ \E i \in Requests : ResolveSelectOk(i)
    \/ \E i \in Requests : ResolveUpdateOk(i)
    \/ \E i \in Requests : ResolveMoveOk(i)

SpecOverlap == InitLife /\ [][NextOverlap]_vars

----------------------------------------------------------------------------
(* New tasks saved while the board lags behind the store *)

\* a start in the week after the one on display, Monday 09:00
StartNextWeek == LocalStr(Monday(HomeWeek + 1) + 540)

NextUnseen ==
    \/ NewCardForm /\ AtMost(MaxPending)
    \/ HandleChange("datetime_start", StartNextWeek)
    \/ ResolveSelect
    \/ ResolveInsert

\* the board of u1 on an empty store
SpecUnseen == InitBoardWith(<< >>) /\ [][NextUnseen]_vars

----------------------------------------------------------------------------
(* Properties *)

\* the requests that carry an owner id to the store
OwnerCalls == { i \in DOMAIN pending : pending[i].kind \in {"select", "insert"} }

\* C1: without a session the sign-in surface is what App returns, and no
\* call carrying an owner id is issued to the store while the session is null.
C1_NoSessionNoOwnerCall ==
    /\ session = NoSession => View = "signin"
    /\ \A i \in OwnerCalls : pending[i].live # NoSession

\* end instant minus start instant of a card or of the fields of an update
Span(c) == NewDate(c.datetime_end) - NewDate(c.datetime_start)

\* the step resolves the move request i without error
MoveLands(i) ==
    /\ i \in DOMAIN pending
    /\ pending[i].kind = "move"
    /\ lastEvent' = "ResolveMoveOk"
    /\ db' = StoreUpdate(db, pending[i].id, pending[i].fields)

CardsAt(sd, k) ==
    IF k \in DOMAIN sd THEN { sd[k][i] : i \in DOMAIN sd[k] } ELSE {}

\* the step resolves select i, the refetch of a move that was persisted
MoveRefetched(i) ==
    /\ i \in DOMAIN pending
    /\ pending[i].kind = "select"
    /\ pending[i].ctx.op = "move"
    /\ pending[i].ctx.ok
    /\ lastEvent' = "ResolveSelectOk"
    /\ pending' = Without(pending, i)

\* C3: once a drop on column D and its refetch have completed, a task with
\* the dragged id is filed under D with the local hour and minute it had.
C3_DropLandsOnTargetDay ==
    [][\A i \in DOMAIN pending :
          MoveRefetched(i) =>
              \E c \in CardsAt(scheduleData', pending[i].ctx.targetDay) :
                  /\ c.id = pending[i].ctx.id
                  /\ GetHours(NewDate(c.datetime_start))
                        = GetHours(NewDate(pending[i].ctx.orig.datetime_start))
                  /\ GetMinutes(NewDate(c.datetime_start))
                        = GetMinutes(NewDate(pending[i].ctx.orig.datetime_start))]_vars

\* the step is a save of a new task that passed the title check
SavesNewTask ==
    /\ lastEvent' = "handleSave"
    /\ notice' = ""
    /\ editingCard.kind \in {"new", "draft"}

\* some task held in memory on the day of the form's start starts at the
\* instant the form's start denotes
SameInstantHeld ==
    \E c \in TargetDayTasks(DataToSave(formData)) :
        NewDate(c.datetime_start) = NewDate(formData.datetime_start)

\* C4: saving a new task raises the conflict prompt exactly when a task
\* held in memory on the new task's day has the same start time, whether
\* the form or a drag-move wrote that task's start.
C4_PromptIffSameStart ==
    [][SavesNewTask => (conflict'.isOpen <=> SameInstantHeld)]_vars

\* the inserts in flight
Inserts(pend) == { i \in DOMAIN pend : pend[i].kind = "insert" }

\* the step issues no insert: every insert in flight after it was in flight
\* before it
NoInsertIssued ==
    /\ Cardinality(Inserts(pending')) <= Cardinality(Inserts(pending))
    /\ \A i \in Inserts(pending') : \E j \in Inserts(pending) : pending[j] = pending'[i]

\* the step issues exactly one insert, for the task the prompt was raised on
OneInsertIssuedForPrompt ==
    /\ Len(pending') = Len(pending) + 1
    /\ SubSeq(pending', 1, Len(pending)) = pending
    /\ pending'[Len(pending')].kind = "insert"
    /\ pending'[Len(pending')].data = conflict.onConfirm.data

\* C5: while the prompt for a new task B is open no insert is issued;
\* declining closes the prompt, issues no insert and leaves the edit form
\* open with its contents; confirming issues exactly one insert for B and
\* closes prompt and form; the insert, once resolved, adds B to the rows
\* the store held.
C5_PromptGatesInsert ==
    [][/\ conflict'.isOpen /\ ~conflict.isOpen =>
             /\ lastEvent' = "handleSave"
             /\ NoInsertIssued
             /\ conflict'.onConfirm.data = DataToSave(formData)
       /\ conflict.isOpen =>
             \/ /\ conflict' = conflict
                /\ NoInsertIssued
             \/ /\ lastEvent' = "onCancel"
                /\ conflict' = NoConflict
                /\ pending' = pending
                /\ editingCard' = editingCard
                /\ formData' = formData
             \/ /\ lastEvent' = "onConfirm"
                /\ conflict' = NoConflict
                /\ OneInsertIssuedForPrompt
                /\ editingCard' = NoCard
                /\ formData' = ClosedForm
       /\ \A i \in DOMAIN pending :
             (pending[i].kind = "insert" /\ lastEvent' = "ResolveInsertOk"
                /\ Len(db') = Len(db) + 1) =>
                 /\ SubSeq(db', 1, Len(db)) = db
                 /\ \E j \in Inserts(pending) :
                       Row(Len(db'), db'[Len(db')].user_id, pending[j].data)
                           = db'[Len(db')]]_vars

\* B was confirmed at the start of A and the store holds both
C5_Witness ==
    /\ lastEvent = "ResolveInsertOk"
    /\ Len(db) = 2
    /\ db[1].title = "A"
    /\ db[2].title = "B"
    /\ db[2].datetime_start = db[1].datetime_start

\* the day a card is scheduled on, read from its own scheduling field
OwnDay(c) ==
    IF "task_date" \in DOMAIN c THEN c.task_date
    ELSE FormatDay(NewDate(c.datetime_start))

\* card a may stand before card b in a day's list
InOrder(a, b) ==
    IF "task_date" \in DOMAIN a
    THEN \/ a.task_date < b.task_date
         \/ /\ a.task_date = b.task_date
            /\ TimeToSortValue(a.time) <= TimeToSortValue(b.time)
    ELSE NewDate(a.datetime_start) <= NewDate(b.datetime_start)

\* C6: every task in scheduleData is filed under the key of the local
\* calendar day of its own scheduling field, and each day's list is in
\* ascending order of start (coarse variant: of date, then time-of-day rank).
C6_FiledByDaySorted ==
    \A k \in DOMAIN scheduleData :
        \A i \in DOMAIN scheduleData[k] :
            /\ OwnDay(scheduleData[k][i]) = k
            /\ \A j \in DOMAIN scheduleData[k] :
                  i < j => InOrder(scheduleData[k][i], scheduleData[k][j])

\* C7: whenever fetchTasks has computed a window, weekDays is 7 consecutive
\* calendar days, the first a Monday, and the anchor's day is one of them.
C7_WeekWindow ==
    weekDays # << >> =>
        /\ Len(weekDays) = 7
        /\ \A i \in 1..7 : FormatDay(weekDays[i]) = FormatDay(weekDays[1]) + i - 1
        /\ FormatDay(weekDays[1]) % 7 = 0
        /\ \E i \in 1..7 : FormatDay(weekDays[i]) = FormatDay(currentDate)

\* west of UTC the header has moved the anchor onto a Sunday
C7_Witness ==
    /\ weekDays # << >>
    /\ lastEvent = "handleNextWeek"
    /\ tz < 0
    /\ GetDay(currentDate) = 0

\* the step resumes handleAIGenerate on the answer to draft request i
DraftAnswered(i) ==
    /\ i \in DOMAIN pending
    /\ pending[i].kind = "ai_draft"
    /\ pending[i].reply # NoReply
    /\ lastEvent' = "handleAIGenerate"
    /\ pending' = Without(pending, i)

\* the step resumes handleSuggest on the answer to suggest request i
SuggestAnswered(i) ==
    /\ i \in DOMAIN pending
    /\ pending[i].kind = "ai_suggest"
    /\ pending[i].reply # NoReply
    /\ lastEvent' = "handleSuggest.resume"
    /\ pending' = Without(pending, i)

\* a parsed draft that lacks a field of cardSchema.required
LacksRequired(r) == r.state = "json" /\ ~(RequiredFields \subseteq DOMAIN r.obj)

\* C8: a draft answer that lacks any one required field makes
\* handleAIGenerate report an error, leave editingCard and scheduleData as
\* they were and issue no store call.
C8_IncompleteDraftRejected ==
    [][\A i \in DOMAIN pending :
          (DraftAnswered(i) /\ LacksRequired(pending[i].reply)) =>
              /\ notice' # ""
              /\ editingCard' = editingCard
              /\ scheduleData' = scheduleData]_vars

\* C9: a draft answer with every required field opens the edit form on the
\* draft's own title, start, duration, category, priority and subtasks, and
\* an insert is issued only by an explicit save.
C9_FormShowsDraft ==
    [][/\ \A i \in DOMAIN pending :
             (/\ DraftAnswered(i)
              /\ pending[i].reply.state = "json"
              /\ RequiredFields \subseteq DOMAIN pending[i].reply.obj
              /\ ~formData.mounted) =>
                 LET obj == pending[i].reply.obj
                 IN  /\ formData'.mounted
                     /\ formData'.title = obj.title
                     /\ NewDate(formData'.datetime_start) = NewDate(obj.datetime_start)
                     /\ formData'.duration_min = obj.duration_min
                     /\ formData'.category = obj.category
                     /\ formData'.priority = obj.priority
                     /\ formData'.subtasks = obj.subtasks
                     /\ NoInsertIssued
       /\ ~NoInsertIssued => lastEvent' \in {"handleSave", "onConfirm"}]_vars

\* the AI requests in flight
AICalls(pend) == { i \in DOMAIN pend : pend[i].kind \in {"ai_draft", "ai_suggest"} }

\* the answer is a failure: transport error, unparsable text, or a parsed
\* object that lacks a field its schema requires
FailedDraft(r) == r.state # "json" \/ LacksRequired(r)
FailedSuggest(r) == r.state # "json" \/ "details" \notin DOMAIN r.obj

\* C10: when a draft or suggest call fails, no second request is sent, an
\* error is reported, and the prompt text, the task being edited and the
\* form fields are what they were before the call returned.
C10_FailureKeepsFormState ==
    [][\A i \in DOMAIN pending :
          ((DraftAnswered(i) /\ FailedDraft(pending[i].reply))
             \/ (SuggestAnswered(i) /\ FailedSuggest(pending[i].reply))) =>
              /\ Cardinality(AICalls(pending')) = Cardinality(AICalls(pending)) - 1
              /\ notice' # ""
              /\ prompt' = prompt
              /\ editingCard' = editingCard
              /\ formData' = formData]_vars

\* the step is a drop of a captured card that scheduleData does not hold
DropsUnknownCard ==
    /\ lastEvent' = "handleDrop"
    /\ draggedItem # NoDrag
    /\ FindCard(scheduleData, draggedItem.cardId) = {}

\* C11: moveCard on an id that is not in scheduleData issues no update and
\* no refetch, reports nothing and leaves scheduleData as it was.
C11_UnknownIdSkipped ==
    [][DropsUnknownCard =>
          /\ pending' = pending
          /\ notice' = ""
          /\ scheduleData' = scheduleData
          /\ db' = db]_vars

\* a card was dropped after a failed fetch had emptied scheduleData
C11_Witness ==
    /\ lastEvent = "handleDrop"
    /\ draggedItem # NoDrag
    /\ FindCard(scheduleData, draggedItem.cardId) = {}
    /\ pending = << >>

\* the calls to the store in flight
StoreCalls ==
    { i \in DOMAIN pending : pending[i].kind \in {"select", "insert", "update", "move"} }

\* C12: fetchTasks, addCard, updateCard and moveCard issue a call to the
\* store only while App holds a session with a user.
C12_CallsOnlyWithSession ==
    \A i \in StoreCalls : pending[i].live # NoSession

\* the step resolves select i without error
SelectApplied(i) ==
    /\ i \in DOMAIN pending
    /\ pending[i].kind = "select"
    /\ lastEvent' = "ResolveSelectOk"
    /\ pending' = Without(pending, i)

\* the day-keys of the window a select was issued for
WindowKeys(r) ==
    { FormatDay(r.start) + d : d \in 0..(FormatDay(r.end) - FormatDay(r.start)) }

\* C13: a fetch applies its result whenever it resolves, whatever was
\* issued after it: scheduleData then holds the columns of that fetch's own
\* week and the owner's rows that start inside it.
C13_SupersededFetchApplies ==
    [][\A i \in DOMAIN pending :
          SelectApplied(i) =>
              /\ DOMAIN scheduleData' = WindowKeys(pending[i])
              /\ { c.id : c \in CardsOf(scheduleData') }
                    = { db[j].id : j \in { k \in DOMAIN db :
                            /\ db[k].user_id = pending[i].owner
                            /\ StoreReads(db[k].datetime_start) >= pending[i].start
                            /\ StoreReads(db[k].datetime_start) <= pending[i].end
                            /\ FormatDay(NewDate(db[k].datetime_start))
                                  \in WindowKeys(pending[i]) } }]_vars

\* every request has resolved, the earlier one last: scheduleData holds the
\* columns of a week that is not the one in weekDays
C13_Witness ==
    /\ pending = << >>
    /\ session # NoSession
    /\ lastEvent = "ResolveSelectOk"
    /\ DOMAIN scheduleData # Columns

\* the window fetches in flight
Selects(p) == { i \in DOMAIN p : p[i].kind = "select" }

\* the ids of the cards held in memory
ShownIds(sd) == { c.id : c \in CardsOf(sd) }

\* C14: a successful addCard stores one row, issues exactly one window fetch
\* and leaves scheduleData alone; a failed one stores nothing, fetches nothing
\* and leaves scheduleData alone; a card enters scheduleData only when a
\* fetch resolves.
C14_AddRefetchesOnce ==
    [][/\ lastEvent' = "ResolveInsertOk" =>
             /\ scheduleData' = scheduleData
             /\ Len(db') = Len(db) + 1
             /\ Cardinality(Selects(pending')) = Cardinality(Selects(pending)) + 1
             /\ Len(pending') = Len(pending)
       /\ lastEvent' = "ResolveInsertError" =>
             /\ scheduleData' = scheduleData
             /\ db' = db
             /\ Cardinality(Selects(pending')) = Cardinality(Selects(pending))
             /\ Len(pending') = Len(pending) - 1
       /\ ShownIds(scheduleData') \ ShownIds(scheduleData) # {} =>
             lastEvent' = "ResolveSelectOk"]_vars

\* an insert has just succeeded: the new row is stored, is not in
\* scheduleData, and the fetch that will bring it is in flight
C14_Witness ==
    /\ lastEvent = "ResolveInsertOk"
    /\ Len(db) \notin ShownIds(scheduleData)
    /\ \E i \in Selects(pending) :
          /\ pending[i].ctx.op = "add"
          /\ FormatDay(NewDate(db[Len(db)].datetime_start)) \in DOMAIN scheduleData

\* the fields of a task the store assigns
StoreAssigned == {"id", "user_id", "created_at"}

\* the fields of a task
CardFields == DOMAIN SeedDb[1]

\* the updateCard calls in flight
Updates(p) == { i \in DOMAIN p : p[i].kind = "update" }

\* C15: an update carries every field of the task except id, user_id and
\* created_at; no step changes the id, the owner or the created timestamp of
\* a stored row; a successful update issues one window fetch.
C15_UpdateKeepsOwnerAndCreation ==
    [][/\ \A i \in Updates(pending') :
             DOMAIN pending'[i].fields = CardFields \ StoreAssigned
       /\ \A r \in DOMAIN db :
             /\ r \in DOMAIN db'
             /\ \A f \in StoreAssigned : db'[r][f] = db[r][f]
       /\ lastEvent' = "ResolveUpdateOk" =>
             /\ scheduleData' = scheduleData
             /\ Cardinality(Selects(pending')) = Cardinality(Selects(pending)) + 1
             /\ Len(pending') = Len(pending)]_vars

\* a task created in the form has been edited and moved, and its last
\* update has just been stored
C15_Witness ==
    /\ lastEvent = "ResolveUpdateOk"
    /\ Len(db) > Len(SeedDb)
    /\ \E r \in DOMAIN db :
          /\ r > Len(SeedDb)
          /\ db[r].datetime_start.zone = "utc"
          /\ db[r].duration_min = 90

\* C16: when a window fetch fails, scheduleData becomes empty: it has no
\* column and no card, whatever it held before.
C16_FetchFailureEmpties ==
    [][lastEvent' = "ResolveSelectError" =>
          /\ scheduleData' = EmptySchedule
          /\ DOMAIN scheduleData' = {}
          /\ CardsOf(scheduleData') = {}]_vars

\* a fetch has just failed while the store holds tasks of the user in the
\* week on display: none of them is in scheduleData
C16_Witness ==
    /\ lastEvent = "ResolveSelectError"
    /\ session # NoSession
    /\ StoreSelect(db, session, StartOfWeek(currentDate), EndOfWeek(currentDate)) # << >>
    /\ CardsOf(scheduleData) = {}

\* the fields of a task the edit form saves
SavedFields == CardFields \ StoreAssigned

\* card c is the task saved as data by owner, as the store completed it
RoundTripOf(c, data, owner) ==
    /\ \A f \in SavedFields : c[f] = data[f]
    /\ c.user_id = owner
    /\ \E r \in DOMAIN db : db[r].id = c.id /\ db[r].created_at = c.created_at

\* C17: when the fetch that follows the creation of a task resolves, and its
\* window holds the day the task starts, scheduleData holds a task with the
\* saved values of every field of the form and the id, owner and created
\* timestamp of the store.
C17_CreateThenFetchRoundTrip ==
    [][\A i \in DOMAIN pending :
          ( /\ SelectApplied(i)
            /\ pending[i].ctx.op = "add"
            /\ FormatDay(NewDate(pending[i].ctx.data.datetime_start))
                  \in WindowKeys(pending[i]) )
          => \E c \in CardsOf(scheduleData') :
                RoundTripOf(c, pending[i].ctx.data, pending[i].owner)]_vars

\* the edit form is open without a title, or (date-based variant) without a
\* date
LacksTitleOrDate ==
    /\ formData.mounted
    /\ \/ formData.title = ""
       \/ "task_date" \in DOMAIN formData /\ formData.task_date = NoDate

\* C18: saving the edit form without a title (or, in the date-based
\* variant, without a date) reports a notice, issues no store call, raises
\* no conflict prompt, keeps the form open and leaves its fields as they were.
C18_InvalidFormRejected ==
    [][(lastEvent' = "handleSave" /\ LacksTitleOrDate) =>
          /\ notice' # ""
          /\ pending' = pending
          /\ db' = db
          /\ conflict' = conflict
          /\ ~conflict'.isOpen
          /\ editingCard' = editingCard
          /\ formData' = formData]_vars

\* the form of an existing task, its title erased, has just been saved and
\* refused
C18_Witness ==
    /\ lastEvent = "handleSave"
    /\ notice = "Le titre est obligatoire."
    /\ editingCard.kind = "card"
    /\ formData.mounted
    /\ formData.title = ""
    /\ pending = << >>

\* the step is a drop made while a drag is captured
DropsCaptured ==
    /\ lastEvent' = "handleDrop"
    /\ draggedItem # NoDrag

\* the moveCard calls in flight
Moves(p) == { i \in DOMAIN p : p[i].kind = "move" }

\* C19: a drop made while a drag is captured clears the captured id and
\* calls moveCard once with the captured id and the day-key of the column:
\* one update of that card to that day is issued when the card is on the
\* board.
C19_DropClearsAndMovesOnce ==
    [][DropsCaptured =>
          /\ draggedItem' = NoDrag
          /\ FindCard(scheduleData, draggedItem.cardId) # {} =>
                /\ Len(pending') = Len(pending) + 1
                /\ SubSeq(pending', 1, Len(pending)) = pending
                /\ pending'[Len(pending')].kind = "move"
                /\ pending'[Len(pending')].id = draggedItem.cardId
                /\ pending'[Len(pending')].targetDay \in Columns]_vars

\* the step is a drop made while no drag is captured
DropsIdle ==
    /\ lastEvent' = "handleDrop"
    /\ draggedItem = NoDrag

\* C20: a drop made while no drag is captured calls no move and no store;
\* a drag end clears the captured id, calls no store and leaves
\* scheduleData as it was.
C20_IdleDropAndDragEnd ==
    [][/\ DropsIdle =>
             /\ pending' = pending
             /\ db' = db
             /\ scheduleData' = scheduleData
             /\ draggedItem' = NoDrag
       /\ lastEvent' = "handleDragEnd" =>
             /\ draggedItem' = NoDrag
             /\ pending' = pending
             /\ db' = db
             /\ scheduleData' = scheduleData]_vars

\* a card was dragged and moved, the drag ended, and a drop followed while
\* nothing was in flight: nothing was asked of the store
C20_Witness ==
    /\ lastEvent = "handleDrop"
    /\ draggedItem = NoDrag
    /\ pending = << >>
    /\ db # SeedDbTwo

\* C21: scheduleData changes only in the step that resolves a fetch: no
\* step of addCard, updateCard, moveCard, handleDrop or handleSaveCard
\* changes it.
C21_OnlyFetchChangesSchedule ==
    [][scheduleData' # scheduleData =>
          lastEvent' \in {"ResolveSelectOk", "ResolveSelectError"}]_vars

\* a move has been stored and its refetch is in flight: scheduleData still
\* holds the card with the start it had before the move
C21_Witness ==
    /\ lastEvent = "ResolveMoveOk"
    /\ \E i \in Selects(pending) : pending[i].ctx.op = "move"
    /\ \E c \in CardsOf(scheduleData) :
          \E r \in DOMAIN db :
              /\ db[r].id = c.id
              /\ db[r].datetime_start # c.datetime_start

\* C22: the board, when rendered, has one column per day of weekDays, in
\* the order of the days, no day twice; a column holds the cards scheduleData
\* files under its day, in that order, and is empty when scheduleData has
\* none.
C22_OneColumnPerDay ==
    View = "board" =>
        /\ DOMAIN Board = 1..Len(weekDays)
        /\ \A i \in DOMAIN weekDays :
              /\ Board[i].columnName = FormatDay(weekDays[i])
              /\ i > 1 => Board[i].columnName = Board[i - 1].columnName + 1
              /\ Board[i].columnName \in DOMAIN scheduleData =>
                    Board[i].cards = scheduleData[Board[i].columnName]
              /\ Board[i].columnName \notin DOMAIN scheduleData =>
                    Board[i].cards = << >>

\* a fetch has failed while the store holds the user's tasks of the week:
\* the board shows seven empty columns
C22_Witness ==
    /\ View = "board"
    /\ lastEvent = "ResolveSelectError"
    /\ scheduleData = EmptySchedule
    /\ Len(weekDays) = 7
    /\ \A i \in DOMAIN Board : Board[i].cards = << >>
    /\ StoreSelect(db, session, weekDays[1], weekDays[7] + MinPerDay - 1) # << >>

\* the step saves the form of an existing task, its title filled in
SavesEdit ==
    /\ lastEvent' = "handleSave"
    /\ notice' = ""
    /\ editingCard.kind = "card"

\* C23: saving an edit of an existing task raises no conflict prompt,
\* whatever the other tasks of the day are; it closes the form and, the task
\* being on the board, issues the update in the same step.
C23_EditSkipsConflictCheck ==
    [][SavesEdit =>
          /\ ~conflict'.isOpen
          /\ conflict' = conflict
          /\ editingCard' = NoCard
          /\ FindCard(scheduleData, editingCard.card.id) # {} =>
                /\ Len(pending') = Len(pending) + 1
                /\ SubSeq(pending', 1, Len(pending)) = pending
                /\ pending'[Len(pending')].kind = "update"
                /\ pending'[Len(pending')].id = editingCard.card.id]_vars

\* an edit has just been saved whose start is the start of another task on
\* the board: its update is in flight and no prompt is shown
C23_Witness ==
    /\ lastEvent = "handleSave"
    /\ editingCard = NoCard
    /\ ~conflict.isOpen
    /\ \E i \in Updates(pending) :
          /\ "datetime_start" \in DOMAIN pending[i].fields
          /\ \E c \in CardsOf(scheduleData) :
                /\ c.id # pending[i].id
                /\ c.datetime_start = pending[i].fields.datetime_start

\* the fields a drag-move may write
SchedulingFields == {"datetime_start", "datetime_end", "task_date"}

\* C24: the update issued by moveCard names datetime_start and datetime_end
\* only (task_date only in the date-based variant), and when it is stored no
\* other field of any row changes.
C24_MoveWritesSchedulingOnly ==
    [][/\ \A i \in DOMAIN pending' :
             /\ pending'[i].kind = "move" =>
                   DOMAIN pending'[i].fields = {"datetime_start", "datetime_end"}
             /\ pending'[i].kind = "move_date" =>
                   DOMAIN pending'[i].fields = {"task_date"}
       /\ lastEvent' = "ResolveMoveOk" =>
             /\ DOMAIN db' = DOMAIN db
             /\ \A r \in DOMAIN db :
                   \A f \in DOMAIN db[r] \ SchedulingFields :
                       db'[r][f] = db[r][f]]_vars

\* a move has just been stored and it changed the start of a task
C24_Witness ==
    /\ lastEvent = "ResolveMoveOk"
    /\ \E r \in DOMAIN db :
          /\ "datetime_start" \in DOMAIN db[r]
          /\ db[r].datetime_start.zone = "utc"
          /\ db[r].title \in {"A", "C"}
          /\ db[r].user_id = "u1"

\* the step saves the coarse form of a new task, title and date filled in
SavesNewCoarseTask ==
    /\ lastEvent' = "handleSave"
    /\ notice' = ""
    /\ editingCard.kind # "card"
    /\ "task_date" \in DOMAIN formData

\* a task of scheduleData on the day of the form that is all-day, or faces
\* an all-day form, or has the time of day of the form
CoarseClash ==
    \E c \in CardsOf(scheduleData) :
        /\ c.task_date = formData.task_date
        /\ \/ c.time = AllDay
           \/ formData.time = AllDay
           \/ c.time = formData.time

\* C25: in the coarse variant, saving a new task raises the conflict prompt
\* exactly when a task of scheduleData on the same day is all-day, or the
\* new task is all-day, or the two have the same time of day; otherwise the
\* insert is issued.
C25_CoarseConflictRule ==
    [][SavesNewCoarseTask =>
          /\ conflict'.isOpen <=> CoarseClash
          /\ ~CoarseClash => Len(pending') = Len(pending) + 1]_vars

\* the prompt is open for an all-day task on the day of a morning task
C25_Witness ==
    /\ conflict.isOpen
    /\ conflict.onConfirm.data.time = AllDay
    /\ \E c \in CardsOf(scheduleData) :
          /\ c.task_date = conflict.onConfirm.data.task_date
          /\ c.time = Morning

\* C26: in the progress variant, the progress of every stored task, of
\* every card of scheduleData and of the form stays within 0..100, and a
\* quick increment asks for 0 on a card at 100 and for ten more otherwise.
C26_ProgressWithinBounds ==
    [][/\ \A r \in DOMAIN db' : db'[r].progress \in 0..100
       /\ \A c \in CardsOf(scheduleData') : c.progress \in 0..100
       /\ formData'.mounted => formData'.progress \in 0..100
       /\ \A i \in Updates(pending') : pending'[i].fields.progress \in 0..100
       /\ lastEvent' = "handleProgressClick" =>
             /\ Len(pending') = Len(pending) + 1
             /\ \E c \in ShownCards :
                   /\ pending'[Len(pending')].id = c.id
                   /\ pending'[Len(pending')].fields.progress =
                         (IF c.progress = 100 THEN 0 ELSE c.progress + 10)]_vars

\* a card at 100 has just been clicked on its progress bar: the update in
\* flight asks for 0
C26_Witness ==
    /\ lastEvent = "handleProgressClick"
    /\ pending # << >>
    /\ pending[Len(pending)].kind = "update"
    /\ pending[Len(pending)].fields.progress = 0
    /\ \E c \in ShownCards :
          c.id = pending[Len(pending)].id /\ c.progress = 100

\* the end of a stored task is its start plus duration_min minutes, both
\* read as the browser reads them
EndMatchesDuration(row) ==
    NewDate(row.datetime_end) = NewDate(row.datetime_start) + row.duration_min

\* C27: every task in the store satisfies datetime_end = datetime_start +
\* duration_min minutes, after any sequence of creations, edits and moves.
C27_EndIsStartPlusDuration ==
    \A r \in DOMAIN db : EndMatchesDuration(db[r])

\* C28: while the board is displayed, every task of scheduleData is owned
\* by the user of the session.
C28_BoardShowsOwnTasksOnly ==
    View = "board" => \A c \in CardsOf(scheduleData) : c.user_id = session

\* the step issues one insert for the task of the form and closes the form
InsertIssuedForForm ==
    /\ Len(pending') = Len(pending) + 1
    /\ SubSeq(pending', 1, Len(pending)) = pending
    /\ pending'[Len(pending')].kind = "insert"
    /\ pending'[Len(pending')].data = DataToSave(formData)
    /\ editingCard' = NoCard

\* some card of scheduleData starts at the instant the form's start denotes
StartHeldInMemory ==
    \E c \in CardsOf(scheduleData) :
        NewDate(c.datetime_start) = NewDate(formData.datetime_start)

\* C29: the conflict check sees scheduleData only: when no task held in
\* memory on the new task's day starts at its start (the day is no column
\* of scheduleData, or the task with that start is in the store but not yet
\* fetched), saving raises no prompt and issues the insert in the same step.
C29_ConflictCheckSeesMemoryOnly ==
    [][(SavesNewTask /\ ~StartHeldInMemory) =>
          /\ ~conflict'.isOpen
          /\ InsertIssuedForForm]_vars

\* a task was stored and its refetch is still in flight; a second task
\* with the same start has just been saved without a prompt
C29_Witness ==
    /\ lastEvent = "handleSave"
    /\ ~conflict.isOpen
    /\ \E i \in Selects(pending) : pending[i].ctx.op = "add"
    /\ \E j \in Inserts(pending) : \E r \in DOMAIN db :
          /\ db[r].datetime_start = pending[j].data.datetime_start
          /\ db[r].user_id = pending[j].owner
          /\ db[r].id \notin ShownIds(scheduleData)

\* C30: saving an edit of a task whose id scheduleData no longer holds
\* issues no update, reports nothing and closes the edit form: the edit is
\* dropped and the store keeps the task as it was.
C30_EditOfMissingCardDropped ==
    [][(SavesEdit /\ FindCard(scheduleData, editingCard.card.id) = {}) =>
          /\ pending' = pending
          /\ db' = db
          /\ notice' = ""
          /\ editingCard' = NoCard
          /\ formData' = ClosedForm]_vars

\* the form of a task was saved after a failed fetch had emptied
\* scheduleData: the form is closed, nothing is in flight, and the store
\* holds the task with the duration it had
C30_Witness ==
    /\ lastEvent = "handleSave"
    /\ notice = ""
    /\ editingCard = NoCard
    /\ scheduleData = EmptySchedule
    /\ pending = << >>
    /\ db = SeedDb
====
